---------------------------- MODULE Spec2Model ----------------------------
(***************************************************************************)
(* A model of the payments_dashboard_mini population scripts:              *)
(*   src/payments/scripts/populate_database.py            ("django")       *)
(*   src/payments/scripts/populate_database_sqlalchemy.py ("sqla")         *)
(*   src/payments/scripts/populate_db_sqlalchemy_w_copy.py ("copy")        *)
(*   src/payments/scripts/clear_database.py               ("clear")        *)
(* running against one relational store of four tables.                    *)
(*                                                                         *)
(* Text is a sequence of one-character strings, so that formatting and     *)
(* substring tests are computed as Python computes them.  A datetime is    *)
(* a whole number of days; a price is a whole number of cents.             *)
(***************************************************************************)
EXTENDS Integers, Sequences, FiniteSets, TLC

VARIABLES
    script,        \* the script whose main() is running, "none" between runs
    pc,            \* the position of the running main() / stage function
    runs,          \* number of script runs started so far
    customers,     \* table customers: rows in insertion order
    services,      \* table services
    purchases,     \* table purchases
    payments,      \* table payments
    nextid,        \* identity sequence of each table: the next id it hands out
    session,       \* state: the SQLAlchemy session of main() ("none", "open",
                   \* "closed"); rollbacks: the calls of session.rollback();
                   \* pending: the rows at the end of the running stage's
                   \* table that the session wrote and has not committed;
                   \* raw: the raw connections chunk loads have taken from
                   \* the engine and not closed
    exitcode,      \* exit status of the last finished run, -1 while none
    err,           \* the exception in flight or last raised (NoError when none):
                   \* its type and the numbers its message carries
    n_rows,        \* the stage call's row target (n_customers, n_purchases, ...)
    batch_size,    \* the stage call's batch_size
    refs,          \* reference data fetched by the running stage
    batch_starts,  \* the batch starts handed to the worker pool
    results,       \* per batch: the worker's returned rows, or NotDone
    data,          \* customers_data / purchase_data / payment_data collected
    collected,     \* number of batches main has taken from executor.map
    load_i,        \* offset i of the running load loop
    branch,        \* history: per generated payment, TRUE iff the 95% branch ran
    log,           \* history: stages of the running main() in execution order
    firstid,       \* history: id given to the first row inserted after a clear
    seq_before,    \* history: the identity sequences before the last clear_database
    wide,          \* whether the run explores every outcome of the payload draws
    caller,        \* "main": the stage runs inside main(); "call": it was called directly
    phase          \* the position inside the running stage function

storeVars == <<customers, services, purchases, payments, nextid>>
mainVars  == <<script, pc, runs, session, exitcode, err, log, wide, caller>>
stageVars == <<phase, n_rows, batch_size, refs, batch_starts, results, collected, data, load_i, branch>>
histVars  == <<firstid, seq_before>>
vars      == <<storeVars, mainVars, stageVars, histVars>>

---------------------------------------------------------------------------
(* Bounds of the model.                                                    *)

\* SpecBatch draws the row target of a stage call from 0..MaxN
MaxN == 4
\* SpecBatch draws the batch size of a stage call from 1..MaxB
MaxB == 3
\* rows per table in the stores the specifications start from
MaxSeed == 2
\* rows inserted and deleted again before the start (identity values used up)
MaxBurn == 1
\* the day number of the generation-time clock
Today == 400

---------------------------------------------------------------------------
(* Enumerations: sqlalchemy_models.py / models.py.                         *)

AccountStatusValues  == {1, 2, 3}
ServiceTypeValues    == {1, 2, 3, 4}
BillingCycleValues   == {1, 2}
PurchaseStatusValues == {1, 2, 3, 4}
PaymentMethodValues  == {1, 2, 3, 4}
PaymentStatusValues  == {1, 2, 3, 4}
CurrencyValues       == {1, 2, 3, 4}

\* the members of the enum.Enum classes of sqlalchemy_models.py
SqlaEnums ==
    [AccountStatus |-> [ACTIVE |-> 1, SUSPENDED |-> 2, TERMINATED |-> 3],
     ServiceType |-> [INTERNET |-> 1, MOBILE |-> 2, ONE_OFF |-> 3, TV |-> 4],
     BillingCycle |-> [MONTHLY |-> 1, YEARLY |-> 2],
     PurchaseStatus |-> [ACTIVE |-> 1, CANCELED |-> 2, EXPIRED |-> 3, AWAITING_ACTIVATION |-> 4],
     PaymentMethod |-> [CREDIT_CARD |-> 1, BANK_TRANSFER |-> 2, MOBILE_PAYMENT |-> 3, CASH_PAYMENT |-> 4],
     PaymentStatus |-> [PENDING |-> 1, COMPLETED |-> 2, FAILED |-> 3, REFUNDED |-> 4],
     Currency |-> [EUR |-> 1, BGN |-> 2, USD |-> 3, GBP |-> 4]]

\* the members of the IntEnum classes of models.py
DjangoEnums ==
    [AccountStatus |-> [ACTIVE |-> 1, SUSPENDED |-> 2, TERMINATED |-> 3],
     ServiceType |-> [INTERNET |-> 1, MOBILE |-> 2, ONE_OFF |-> 3, TV |-> 4],
     BillingCycle |-> [MONTHLY |-> 1, YEARLY |-> 2],
     PurchaseStatus |-> [ACTIVE |-> 1, CANCELED |-> 2, EXPIRED |-> 3, AWAITING_ACTIVATION |-> 4],
     PaymentMethod |-> [CREDIT_CARD |-> 1, BANK_TRANSFER |-> 2, MOBILE_PAYMENT |-> 3, CASH_PAYMENT |-> 4],
     PaymentStatus |-> [PENDING |-> 1, COMPLETED |-> 2, FAILED |-> 3, REFUNDED |-> 4],
     Currency |-> [EUR |-> 1, BGN |-> 2, USD |-> 3, GBP |-> 4]]

ServiceType_INTERNET == 1
ServiceType_MOBILE   == 2
ServiceType_ONE_OFF  == 3
ServiceType_TV       == 4
BillingCycle_MONTHLY == 1

\* Python's None / SQL NULL, where a date (a day count >= 0) may stand
None == -1

\* an exception as main() reports it with print(f"... {e}"): its type (and
\* fixed text), and the numbers in its message
Exception(type, args) == [type |-> type, args |-> args]

NoError == Exception("none", <<>>)

\* db.get_session(): a fresh session; no raw connection taken yet
OpenSession == [state |-> "open", rollbacks |-> 0, pending |-> 0, raw |-> 0]

\* no SQLAlchemy session (populate_database uses the Django ORM)
NoSession == [state |-> "none", rollbacks |-> 0, pending |-> 0, raw |-> 0]

---------------------------------------------------------------------------
(* Helpers.                                                                *)

Tables == {"customers", "services", "purchases", "payments"}

Min(a, b) == IF a < b THEN a ELSE b

Range(f) == {f[i] : i \in DOMAIN f}

SeqIds(t) == {t[i].id : i \in DOMAIN t}

\* range(0, n, b) of Python, for b >= 1
PyRange(n, b) == [k \in 1..((n + b - 1) \div b) |-> (k - 1) * b]

\* a slice that takes the element at its end offset too
PySliceInclusive(s, i, b) == SubSeq(s, i + 1, Min(i + b + 1, Len(s)))

\* data[i : i + b] of Python, i a 0-based offset
PySlice(s, i, b) == SubSeq(s, i + 1, Min(i + b, Len(s)))

RECURSIVE Flatten(_)
Flatten(ss) == IF ss = <<>> THEN <<>> ELSE Head(ss) \o Flatten(Tail(ss))

DigitChar == <<"0", "1", "2", "3", "4", "5", "6", "7", "8", "9">>

\* str(i) for an int i >= 0
RECURSIVE Str(_)
Str(i) == IF i < 10 THEN <<DigitChar[i + 1]>> ELSE Str(i \div 10) \o <<DigitChar[(i % 10) + 1]>>


\* "sub in s" of Python, for two strings
Contains(s, sub) == \E i \in 1..(Len(s) - Len(sub) + 1) : SubSeq(s, i, i + Len(sub) - 1) = sub

---------------------------------------------------------------------------
(* The random source.  A direct call of a generator explores every         *)
(* outcome of the draws that decide which rows reference which (customer,  *)
(* service, purchase, the 95% mask); a run of main() follows the first     *)
(* index of each such draw and both outcomes of the mask.  With            *)
(* wide = FALSE one outcome is kept of each draw that only fills a payload *)
(* column (a status, a price), and the ends of the range of a day offset.  *)

Lowest(S) == CHOOSE x \in S : \A y \in S : x <= y

Draw(S) == IF wide THEN S ELSE {Lowest(S)}

Highest(S) == CHOOSE x \in S : \A y \in S : y <= x

\* the draws of a day offset the model follows: the two ends of S in a
\* direct call of a generator, its lower end in a run of main()
DrawEnds(S) == IF caller = "main" THEN {Lowest(S)} ELSE {Lowest(S), Highest(S)}

\* the draws of an index into a reference list the model follows: every
\* index in a direct call of a generator, the first in a run of main()
Pick(S) == IF caller = "main" THEN {Lowest(S)} ELSE S

\* random.randint(a, b): a <= d <= b
RandomRandint(a, b) == a..b

\* np.random.randint(a, b): a <= d < b
NpRandomRandint(a, b) == a..(b - 1)

---------------------------------------------------------------------------
(* Module constants of the population scripts.                             *)

\* N_CUSTOMERS, N_PURCHASES, N_PAYMENTS and the default batch_size, scaled down
MaxStageN == 2
MaxStageB == 2
MaxRuns == 2
N_CUSTOMERS == 2
N_PURCHASES == 2
N_PAYMENTS == 2
BATCH_SIZE == 1
\* the runs use the first CatalogLen entries of TELECOM_SERVICES and of the weights
CatalogLen == 2
\* prices of one wide catalog run that are drawn at the top of their range
MaxHigh == 2

TELECOM_SERVICES == <<
    \* Fiber Optic 100Mbps
    <<"F", "i", "b", "e", "r", " ", "O", "p", "t", "i", "c", " ", "1", "0", "0", "M", "b", "p", "s">>,
    \* Fiber Optic 500Mbps
    <<"F", "i", "b", "e", "r", " ", "O", "p", "t", "i", "c", " ", "5", "0", "0", "M", "b", "p", "s">>,
    \* Fiber Optic 1Gbps
    <<"F", "i", "b", "e", "r", " ", "O", "p", "t", "i", "c", " ", "1", "G", "b", "p", "s">>,
    \* Cable Internet 50Mbps
    <<"C", "a", "b", "l", "e", " ", "I", "n", "t", "e", "r", "n", "e", "t", " ", "5", "0", "M", "b", "p", "s">>,
    \* Cable Internet 200Mbps
    <<"C", "a", "b", "l", "e", " ", "I", "n", "t", "e", "r", "n", "e", "t", " ", "2", "0", "0", "M", "b", "p", "s">>,
    \* DSL Internet 25Mbps
    <<"D", "S", "L", " ", "I", "n", "t", "e", "r", "n", "e", "t", " ", "2", "5", "M", "b", "p", "s">>,
    \* DSL Internet 50Mbps
    <<"D", "S", "L", " ", "I", "n", "t", "e", "r", "n", "e", "t", " ", "5", "0", "M", "b", "p", "s">>,
    \* Wireless Internet 100Mbps
    <<"W", "i", "r", "e", "l", "e", "s", "s", " ", "I", "n", "t", "e", "r", "n", "e", "t", " ", "1", "0", "0", "M", "b", "p", "s">>,
    \* Mobile Plan 5GB
    <<"M", "o", "b", "i", "l", "e", " ", "P", "l", "a", "n", " ", "5", "G", "B">>,
    \* Mobile Plan 10GB
    <<"M", "o", "b", "i", "l", "e", " ", "P", "l", "a", "n", " ", "1", "0", "G", "B">>,
    \* Mobile Plan 20GB
    <<"M", "o", "b", "i", "l", "e", " ", "P", "l", "a", "n", " ", "2", "0", "G", "B">>,
    \* Mobile Plan Unlimited
    <<"M", "o", "b", "i", "l", "e", " ", "P", "l", "a", "n", " ", "U", "n", "l", "i", "m", "i", "t", "e", "d">>,
    \* Mobile Plan Family 4GB
    <<"M", "o", "b", "i", "l", "e", " ", "P", "l", "a", "n", " ", "F", "a", "m", "i", "l", "y", " ", "4", "G", "B">>,
    \* Mobile Plan Family 10GB
    <<"M", "o", "b", "i", "l", "e", " ", "P", "l", "a", "n", " ", "F", "a", "m", "i", "l", "y", " ", "1", "0", "G", "B">>,
    \* Mobile Plan Business 50GB
    <<"M", "o", "b", "i", "l", "e", " ", "P", "l", "a", "n", " ", "B", "u", "s", "i", "n", "e", "s", "s", " ", "5", "0", "G", "B">>,
    \* Basic TV Package
    <<"B", "a", "s", "i", "c", " ", "T", "V", " ", "P", "a", "c", "k", "a", "g", "e">>,
    \* Premium TV Package
    <<"P", "r", "e", "m", "i", "u", "m", " ", "T", "V", " ", "P", "a", "c", "k", "a", "g", "e">>,
    \* Sports TV Package
    <<"S", "p", "o", "r", "t", "s", " ", "T", "V", " ", "P", "a", "c", "k", "a", "g", "e">>,
    \* Movie TV Package
    <<"M", "o", "v", "i", "e", " ", "T", "V", " ", "P", "a", "c", "k", "a", "g", "e">>,
    \* Family TV Package
    <<"F", "a", "m", "i", "l", "y", " ", "T", "V", " ", "P", "a", "c", "k", "a", "g", "e">>
    >>
\* the keywords the if/elif chains of create_custom_services look for
KW ==
    ("Internet" :> <<"I", "n", "t", "e", "r", "n", "e", "t">>)
    @@ ("Fiber" :> <<"F", "i", "b", "e", "r">>)
    @@ ("Cable" :> <<"C", "a", "b", "l", "e">>)
    @@ ("DSL" :> <<"D", "S", "L">>)
    @@ ("Wireless" :> <<"W", "i", "r", "e", "l", "e", "s", "s">>)
    @@ ("1Gbps" :> <<"1", "G", "b", "p", "s">>)
    @@ ("500Mbps" :> <<"5", "0", "0", "M", "b", "p", "s">>)
    @@ ("200Mbps" :> <<"2", "0", "0", "M", "b", "p", "s">>)
    @@ ("100Mbps" :> <<"1", "0", "0", "M", "b", "p", "s">>)
    @@ ("50Mbps" :> <<"5", "0", "M", "b", "p", "s">>)
    @@ ("Mobile" :> <<"M", "o", "b", "i", "l", "e">>)
    @@ ("Unlimited" :> <<"U", "n", "l", "i", "m", "i", "t", "e", "d">>)
    @@ ("50GB" :> <<"5", "0", "G", "B">>)
    @@ ("20GB" :> <<"2", "0", "G", "B">>)
    @@ ("10GB" :> <<"1", "0", "G", "B">>)
    @@ ("5GB" :> <<"5", "G", "B">>)
    @@ ("Premium" :> <<"P", "r", "e", "m", "i", "u", "m">>)
    @@ ("Sports" :> <<"S", "p", "o", "r", "t", "s">>)
    @@ ("Movie" :> <<"M", "o", "v", "i", "e">>)
CUSTOMER_PREFIX == <<"c", "u", "s", "t", "o", "m", "e", "r", "_">>
EMAIL_SUFFIX == <<"@", "e", "x", "a", "m", "p", "l", "e", ".", "c", "o", "m">>

\* SERVICE_POPULARITY_WEIGHTS before normalisation, in hundredths
RAW_POPULARITY_WEIGHTS == <<15, 12, 8, 10, 9, 6, 5, 4, 12, 10, 8, 6, 8, 6, 3, 8, 6, 5, 4, 6>>

\* the names create_custom_services loops over: all of TELECOM_SERVICES in a
\* wide run, its first CatalogLen entries otherwise
Catalog == IF wide THEN TELECOM_SERVICES ELSE SubSeq(TELECOM_SERVICES, 1, CatalogLen)

RECURSIVE SeqSum(_)
SeqSum(s) == IF s = <<>> THEN 0 ELSE Head(s) + SeqSum(Tail(s))

\* w / w.sum(): each weight as the fraction <<numerator, denominator>>
\* (a zero sum gives 0/0, which numpy makes NaN with a warning, not an error)
Normalize(w) == [i \in 1..Len(w) |-> <<w[i], SeqSum(w)>>]

SERVICE_POPULARITY_WEIGHTS == Normalize(SubSeq(RAW_POPULARITY_WEIGHTS, 1, CatalogLen))

---------------------------------------------------------------------------
(* Row generators.                                                         *)

\* one dict of process_customer_batch / create_customers_bulk
CustomerRow(i, st) == [name |-> CUSTOMER_PREFIX \o Str(i), email |-> CUSTOMER_PREFIX \o Str(i) \o EMAIL_SUFFIX, account_status |-> st]

IsInternet(name) == Contains(name, KW["Internet"]) \/ Contains(name, KW["Fiber"]) \/ Contains(name, KW["Cable"]) \/ Contains(name, KW["DSL"]) \/ Contains(name, KW["Wireless"])

\* the service type the if/elif chain gives a catalog name
ServiceTypeOf(name) ==
    IF IsInternet(name) THEN ServiceType_INTERNET
    ELSE IF Contains(name, KW["Mobile"]) THEN ServiceType_MOBILE
    ELSE ServiceType_TV

\* the chain without its "10GB" branch: a 10GB plan falls through to the
\* family range
PriceRangeNo10GB(name) ==
    IF IsInternet(name) THEN
        IF Contains(name, KW["1Gbps"]) THEN <<80, 120>>
        ELSE IF Contains(name, KW["500Mbps"]) THEN <<50, 80>>
        ELSE IF Contains(name, KW["200Mbps"]) THEN <<40, 60>>
        ELSE IF Contains(name, KW["100Mbps"]) THEN <<25, 45>>
        ELSE IF Contains(name, KW["50Mbps"]) THEN <<20, 35>>
        ELSE <<15, 25>>
    ELSE IF Contains(name, KW["Mobile"]) THEN
        IF Contains(name, KW["Unlimited"]) THEN <<40, 60>>
        ELSE IF Contains(name, KW["50GB"]) THEN <<35, 50>>
        ELSE IF Contains(name, KW["20GB"]) THEN <<25, 35>>
        ELSE IF Contains(name, KW["5GB"]) THEN <<15, 25>>
        ELSE <<30, 45>>
    ELSE
        IF Contains(name, KW["Premium"]) THEN <<30, 50>>
        ELSE IF Contains(name, KW["Sports"]) \/ Contains(name, KW["Movie"]) THEN <<20, 35>>
        ELSE <<15, 25>>

\* <<lo, hi>> of the random.uniform call the if/elif chain reaches
PriceRange(name) ==
    IF IsInternet(name) THEN
        IF Contains(name, KW["1Gbps"]) THEN <<80, 120>>
        ELSE IF Contains(name, KW["500Mbps"]) THEN <<50, 80>>
        ELSE IF Contains(name, KW["200Mbps"]) THEN <<40, 60>>
        ELSE IF Contains(name, KW["100Mbps"]) THEN <<25, 45>>
        ELSE IF Contains(name, KW["50Mbps"]) THEN <<20, 35>>
        ELSE <<15, 25>>
    ELSE IF Contains(name, KW["Mobile"]) THEN
        IF Contains(name, KW["Unlimited"]) THEN <<40, 60>>
        ELSE IF Contains(name, KW["50GB"]) THEN <<35, 50>>
        ELSE IF Contains(name, KW["20GB"]) THEN <<25, 35>>
        ELSE IF Contains(name, KW["10GB"]) THEN <<20, 30>>
        ELSE IF Contains(name, KW["5GB"]) THEN <<15, 25>>
        ELSE <<30, 45>>
    ELSE
        IF Contains(name, KW["Premium"]) THEN <<30, 50>>
        ELSE IF Contains(name, KW["Sports"]) \/ Contains(name, KW["Movie"]) THEN <<20, 35>>
        ELSE <<15, 25>>

\* round(random.uniform(lo, hi), 2), in cents
PriceDraws(name) == (PriceRange(name)[1] * 100)..(PriceRange(name)[2] * 100)

\* one dict of create_custom_services_bulk / one Service.objects.create
ServiceRow(name, price) == [name |-> name, type |-> ServiceTypeOf(name), base_price |-> price, is_recurring |-> TRUE, billing_cycle |-> BillingCycle_MONTHLY]

\* one dict of process_purchase_batch / create_purchases_bulk, and the
\* attributes PurchaseFactory / PurchaseWithExistingFactory compute:
\* start_date = now - d days, end_date = start_date + 30 days if recurring
PurchaseRow(cid, sid, rec, d, st) == [customer_id |-> cid, service_id |-> sid, start_date |-> Today - d, end_date |-> IF rec THEN (Today - d) + 30 ELSE None, status |-> st]

\* a payment row that takes the position of the currency in the value list
\* for the value
PaymentRowCurrencyIndex(cid, pid, price, cur, meth, st, d) == [customer_id |-> cid, purchase_id |-> pid, amount |-> price, currency |-> cur - 1, payment_method |-> meth, status |-> st, timestamp |-> Today - d]

\* one dict of process_payment_batch / one Payment.objects.create
PaymentRow(cid, pid, price, cur, meth, st, d) == [customer_id |-> cid, purchase_id |-> pid, amount |-> price, currency |-> cur, payment_method |-> meth, status |-> st, timestamp |-> Today - d]

---------------------------------------------------------------------------
(* The store: four tables with identity columns and foreign keys           *)
(* purchases.customer_id, purchases.service_id, payments.customer_id,     *)
(* payments.purchase_id.                                                   *)

Store == [customers |-> customers, services |-> services, purchases |-> purchases, payments |-> payments, nextid |-> nextid]

SetStore(st) ==
    /\ customers' = st.customers
    /\ services' = st.services
    /\ purchases' = st.purchases
    /\ payments' = st.payments
    /\ nextid' = st.nextid

\* the rows with their identity column filled in: first, first + 1, ...
WithIds(rows, first) == [i \in DOMAIN rows |-> [id |-> first + i - 1] @@ rows[i]]

\* INSERT of rows into table t: the identity sequence numbers them
Insert(st, t, rows) == [st EXCEPT ![t] = @ \o WithIds(rows, st.nextid[t]), !.nextid[t] = @ + Len(rows)]

Keep(rows, gone, col) == SelectSeq(rows, LAMBDA r : r[col] \notin gone)

\* the rows of other tables that hold a foreign key into the rows ids of table t
Referencing(st, t, ids) ==
    CASE t = "customers" -> {r \in Range(st.purchases) : r.customer_id \in ids} \cup {r \in Range(st.payments) : r.customer_id \in ids}
      [] t = "services" -> {r \in Range(st.purchases) : r.service_id \in ids}
      [] t = "purchases" -> {r \in Range(st.payments) : r.purchase_id \in ids}
      [] OTHER -> {}

\* session.query(Model).delete(): DELETE FROM t, refused by the foreign keys
\* while rows of another table reference t; the identity sequence is kept
DeleteAll(st, t) ==
    IF Referencing(st, t, SeqIds(st[t])) # {}
    THEN [ok |-> FALSE, store |-> st]
    ELSE [ok |-> TRUE, store |-> [st EXCEPT ![t] = <<>>]]

\* a delete that follows the purchase foreign keys only: the payments that
\* reference a deleted customer through customer_id alone stay
CascadeDeleteByPurchase(st, t, ids) ==
    CASE t = "payments" -> [st EXCEPT !.payments = Keep(@, ids, "id")]
      [] t = "purchases" -> [st EXCEPT !.purchases = Keep(@, ids, "id"), !.payments = Keep(@, ids, "purchase_id")]
      [] t = "services" ->
            LET pids == {r.id : r \in {x \in Range(st.purchases) : x.service_id \in ids}}
            IN [st EXCEPT !.services = Keep(@, ids, "id"), !.purchases = Keep(@, pids, "id"), !.payments = Keep(@, pids, "purchase_id")]
      [] t = "customers" ->
            LET pids == {r.id : r \in {x \in Range(st.purchases) : x.customer_id \in ids}}
            IN [st EXCEPT !.customers = Keep(@, ids, "id"), !.purchases = Keep(@, pids, "id"), !.payments = Keep(@, pids, "purchase_id")]

\* Model.objects.filter(id in ids).delete() of Django with on_delete=CASCADE
\* on every foreign key (models.py): the referencing rows go too
CascadeDelete(st, t, ids) ==
    CASE t = "payments" -> [st EXCEPT !.payments = Keep(@, ids, "id")]
      [] t = "purchases" -> [st EXCEPT !.purchases = Keep(@, ids, "id"), !.payments = Keep(@, ids, "purchase_id")]
      [] t = "services" ->
            LET pids == {r.id : r \in {x \in Range(st.purchases) : x.service_id \in ids}}
            IN [st EXCEPT !.services = Keep(@, ids, "id"), !.purchases = Keep(@, pids, "id"), !.payments = Keep(@, pids, "purchase_id")]
      [] t = "customers" ->
            LET pids == {r.id : r \in {x \in Range(st.purchases) : x.customer_id \in ids}}
            IN [st EXCEPT !.customers = Keep(@, ids, "id"), !.purchases = Keep(@, pids, "id"), !.payments = Keep(Keep(@, pids, "purchase_id"), ids, "customer_id")]

\* every foreign key of the store resolves
ForeignKeysHold(st) ==
    /\ \A r \in Range(st.purchases) : r.customer_id \in SeqIds(st.customers) /\ r.service_id \in SeqIds(st.services)
    /\ \A r \in Range(st.payments) : r.customer_id \in SeqIds(st.customers) /\ r.purchase_id \in SeqIds(st.purchases)

EmptyStore == [customers |-> <<>>, services |-> <<>>, purchases |-> <<>>, payments |-> <<>>, nextid |-> [t \in Tables |-> 1]]

---------------------------------------------------------------------------
(* clear_database, the four implementations.                               *)

ClearOrderCustomersFirst == <<"customers", "services", "purchases", "payments">>

\* the deletion order of the DELETE-based implementations
CLEAR_ORDER == <<"payments", "purchases", "services", "customers">>

RECURSIVE DeleteInOrder(_, _)
DeleteInOrder(st, order) ==
    IF order = <<>> THEN [ok |-> TRUE, store |-> st]
    ELSE LET r == DeleteAll(st, Head(order))
         IN IF r.ok THEN DeleteInOrder(r.store, Tail(order)) ELSE [ok |-> FALSE, store |-> st]

\* populate_database_sqlalchemy.clear_database: four DELETEs, then one commit;
\* a refused DELETE raises and nothing is committed
SqlaClearDatabase(st) == LET r == DeleteInOrder(st, CLEAR_ORDER) IN IF r.ok THEN r ELSE [ok |-> FALSE, store |-> st]

RECURSIVE CascadeInOrder(_, _)
CascadeInOrder(st, order) ==
    IF order = <<>> THEN st
    ELSE CascadeInOrder(CascadeDelete(st, Head(order), SeqIds(st[Head(order)])), Tail(order))

\* populate_database.clear_database: four Model.objects.all().delete()
DjangoClearDatabase(st) == [ok |-> TRUE, store |-> CascadeInOrder(st, CLEAR_ORDER)]

TruncateKeepIdentity(st) == [ok |-> TRUE, store |-> [EmptyStore EXCEPT !.nextid = st.nextid]]

\* clear_database.clear_database and populate_db_sqlalchemy_w_copy.clear_database:
\* TRUNCATE TABLE payments, purchases, services, customers RESTART IDENTITY CASCADE
TruncateClearDatabase(st) == [ok |-> TRUE, store |-> EmptyStore]

ClearImpls == {"clear", "copy", "sqla", "django"}

ClearDatabase(impl, st) ==
    CASE impl = "sqla" -> SqlaClearDatabase(st)
      [] impl = "django" -> DjangoClearDatabase(st)
      [] OTHER -> TruncateClearDatabase(st)

---------------------------------------------------------------------------
(* The stores a specification starts from: rows left by earlier runs of    *)
(* the scripts or by the ORM factories of tests/factories.py.              *)

WORD == <<"w", "o", "r", "d">>

\* ServiceFactory: the k-th service it builds (k from 0)
ServiceFactoryRow(k, price, rec) == [name |-> WORD \o Str(k), type |-> (k % 4) + 1, base_price |-> price, is_recurring |-> rec, billing_cycle |-> (k % 2) + 1]

SeedStore(nc, ns, np, ny, burn) ==
    LET cs == WithIds([k \in 1..nc |-> CustomerRow(k - 1, ((k - 1) % 3) + 1)], burn + 1)
        ss == WithIds([k \in 1..ns |-> ServiceFactoryRow(k - 1, 1000 * k + 50, k % 2 = 0)], burn + 1)
        ps == WithIds([k \in 1..np |-> PurchaseRow(cs[(k % nc) + 1].id, ss[((k - 1) % ns) + 1].id, ss[((k - 1) % ns) + 1].is_recurring, k, ((k - 1) % 4) + 1)], burn + 1)
        ys == WithIds([k \in 1..ny |-> PaymentRow(cs[((k - 1) % nc) + 1].id, ps[((k - 1) % np) + 1].id, 700 + k, ((k - 1) % 4) + 1, ((k - 1) % 4) + 1, ((k - 1) % 4) + 1, k)], burn + 1)
    IN [customers |-> cs, services |-> ss, purchases |-> ps, payments |-> ys,
        nextid |-> [t \in Tables |-> burn + 1 + (CASE t = "customers" -> nc [] t = "services" -> ns [] t = "purchases" -> np [] OTHER -> ny)]]

SeedStores ==
    {SeedStore(x[1], x[2], x[3], x[4], x[5]) : x \in
        {y \in (0..MaxSeed) \X (0..MaxSeed) \X (0..MaxSeed) \X (0..MaxSeed) \X (0..MaxBurn) :
            /\ (y[3] > 0 => y[1] > 0 /\ y[2] > 0)
            /\ (y[4] > 0 => y[3] > 0)}}

---------------------------------------------------------------------------
(* Initial values.                                                         *)

\* customers / services / purchases: the object lists main() of the Django script
\* holds; the other fields: the parallel lists a bulk stage fetches
NoRefs == [customers |-> <<>>, services |-> <<>>, purchases |-> <<>>,
           customer_ids |-> <<>>, service_ids |-> <<>>, service_is_recurring |-> <<>>,
           purchase_ids |-> <<>>, purchase_customer_ids |-> <<>>, service_base_prices |-> <<>>,
           service_popularity_weights |-> <<>>]

\* a batch whose worker has not returned yet
NotDone == [state |-> "NotDone", rows |-> <<>>, same |-> <<>>]

\* a batch whose worker raised
Raised == [state |-> "Raised", rows |-> <<>>, same |-> <<>>]

\* a batch whose worker returned rows (same: the worker's same_customer_mask,
\* kept as history; empty for customers and purchases)
Done(rows, same) == [state |-> "Done", rows |-> rows, same |-> same]

StageIdle ==
    /\ phase = "none"
    /\ n_rows = 0
    /\ batch_size = 0
    /\ refs = NoRefs
    /\ batch_starts = <<>>
    /\ results = <<>>
    /\ collected = 0
    /\ data = <<>>
    /\ load_i = 0
    /\ branch = <<>>

HistIdle ==
    /\ firstid = [t \in Tables |-> 0]
    /\ seq_before = [t \in Tables |-> 0]

StoreIn(S) == \E st \in S :
    /\ customers = st.customers
    /\ services = st.services
    /\ purchases = st.purchases
    /\ payments = st.payments
    /\ nextid = st.nextid

---------------------------------------------------------------------------
(* SpecClear: clear_database of each implementation called on a store,     *)
(* once or twice, and then the first inserts into the cleared tables.      *)

InitClear ==
    /\ script \in ClearImpls
    /\ pc = "clear0"
    /\ caller = "call"
    /\ runs = 0
    /\ session = IF script = "django" THEN NoSession ELSE OpenSession
    /\ exitcode = -1
    /\ err = NoError
    /\ log = <<>>
    /\ wide = FALSE
    /\ StoreIn(SeedStores)
    /\ StageIdle
    /\ HistIdle

NoInsertYet == \A t \in Tables : firstid[t] = 0

\* clear_database(session) / clear_database() called directly
CallClearDatabase ==
    /\ caller = "call"
    /\ pc \in {"clear0", "clear1"}
    /\ NoInsertYet
    /\ LET r == ClearDatabase(script, Store)
       IN IF r.ok
          THEN /\ SetStore(r.store)
               /\ pc' = IF pc = "clear0" THEN "clear1" ELSE "clear2"
               /\ err' = err
          ELSE /\ UNCHANGED storeVars
               /\ pc' = "raised"
               /\ err' = Exception("IntegrityError", <<>>)
    /\ seq_before' = nextid
    /\ UNCHANGED <<script, runs, session, exitcode, log, wide, caller, stageVars, firstid>>

\* the first row a table receives after the clear: a serial id column
\* (sqlalchemy_models.py: id = Column(Integer, primary_key=True))
FirstRowFor(t) ==
    CASE t = "customers" -> CustomerRow(0, Lowest(AccountStatusValues))
      [] t = "services" -> ServiceRow(Catalog[1], Lowest(PriceDraws(Catalog[1])))
      [] t = "purchases" -> PurchaseRow(customers[1].id, services[1].id, services[1].is_recurring, 1, Lowest(PurchaseStatusValues))
      [] OTHER -> PaymentRow(customers[1].id, purchases[1].id, 100, 1, 1, 1, 1)

InsertAfterClear(t) ==
    /\ caller = "call"
    /\ pc \in {"clear1", "clear2"}
    /\ firstid[t] = 0
    /\ t = "purchases" => customers # <<>> /\ services # <<>>
    /\ t = "payments" => customers # <<>> /\ purchases # <<>>
    /\ SetStore(Insert(Store, t, <<FirstRowFor(t)>>))
    /\ firstid' = [firstid EXCEPT ![t] = nextid[t]]
    /\ UNCHANGED <<mainVars, stageVars, seq_before>>

NextClear == CallClearDatabase \/ \E t \in Tables : InsertAfterClear(t)

SpecClear == InitClear /\ [][NextClear]_vars

TablesEmpty == customers = <<>> /\ services = <<>> /\ purchases = <<>> /\ payments = <<>>

\* C8: clear_database is total and idempotent on row content: applied to
\* any store (empty, fully or partially populated) it raises nothing and
\* leaves the four tables with zero rows, and so does a second application.
C8_ClearTotalIdempotent ==
    caller = "call" /\ pc \in {"clear0", "clear1", "clear2", "raised"} =>
        /\ pc # "raised"
        /\ err = NoError
        /\ (pc \in {"clear1", "clear2"} /\ NoInsertYet => TablesEmpty)

\* C8 witness: the DELETE-based clear has run twice on a store that held
\* purchases and payments (their identity sequences have moved)
C8_Witness ==
    /\ caller = "call" /\ script = "sqla" /\ pc = "clear2"
    /\ TablesEmpty
    /\ seq_before["purchases"] > 1 /\ seq_before["payments"] > 1

\* C9 as amended: the TRUNCATE ... RESTART IDENTITY implementations
\* (clear_database.py, populate_db_sqlalchemy_w_copy.py) reset the identity
\* sequences, so the first row inserted into each table afterwards gets id 1;
\* the DELETE-based implementations (populate_database_sqlalchemy.py,
\* populate_database.py) leave the sequences where they were, so the first
\* row gets the next value of the sequence as it stood before the clear.
C9_ClearIdentity ==
    caller = "call" /\ pc \in {"clear1", "clear2"} =>
        \A t \in Tables :
            LET expected == IF script \in {"clear", "copy"} THEN 1 ELSE seq_before[t]
            IN IF firstid[t] = 0 THEN nextid[t] = expected ELSE firstid[t] = expected

\* C9 witness: after a TRUNCATE clear of a store whose four sequences had
\* moved, the first row of each table got id 1
C9_Witness ==
    /\ caller = "call" /\ script = "clear" /\ pc \in {"clear1", "clear2"}
    /\ \A t \in Tables : firstid[t] = 1 /\ seq_before[t] > 1

\* C9 as stated: after clear_database of any implementation the first row
\* inserted into each table receives id 1
C9_Original ==
    caller = "call" /\ pc \in {"clear1", "clear2"} =>
        \A t \in Tables : firstid[t] # 0 => firstid[t] = 1

---------------------------------------------------------------------------
(* Batch partitioning and the pieces every bulk stage shares.              *)

\* batch starts over range(0, n + 1, batch_size), the end included
BatchStartsInclusive(n, b) == PyRange(n + 1, b)

\* batch_starts = list(range(0, n, batch_size))
BatchStarts(n, b) == PyRange(n, b)

BatchEndNoClamp(start, b, n) == start + b

\* batch_end = min(batch_start + batch_size, n) of the process_*_batch workers
BatchEnd(start, b, n) == Min(start + b, n)

\* actual_batch_size = batch_end - batch_start
ActualBatchSize(start, b, n) == BatchEnd(start, b, n) - start

StageTable == [customers |-> "customers", services |-> "services", purchases |-> "purchases", payments |-> "payments"]

\* the columns whose values are numbers (ids, enum values, day counts, prices)
NumberColumns == {"customer_id", "service_id", "purchase_id", "start_date", "end_date", "status", "amount", "currency", "payment_method", "timestamp", "account_status", "type", "base_price", "billing_cycle"}

\* the text insert_batch_copy writes for None
NULL_TEXT == <<"\\", "N">>

\* a copy call that declares the empty text as its null marker
COPY_NULL_EMPTY == <<>>

\* the null marker declared to copy_from: null="\\N"
COPY_NULL == <<"\\", "N">>
TRUE_TEXT == <<"T", "r", "u", "e">>
FALSE_TEXT == <<"F", "a", "l", "s", "e">>

\* int(text) for a text of decimal digits
RECURSIVE ParseNumber(_)
ParseNumber(t) ==
    IF t = <<>> THEN 0
    ELSE 10 * ParseNumber(SubSeq(t, 1, Len(t) - 1)) + ((CHOOSE d \in 1..10 : DigitChar[d] = t[Len(t)]) - 1)

\* a serializer that writes an amount without its hundredths
CopyTextWholeUnits(f, v) ==
    IF f = "amount" THEN Str(v \div 100)
    ELSE IF f \in NumberColumns THEN (IF v = None THEN NULL_TEXT ELSE Str(v))
    ELSE IF f = "is_recurring" THEN (IF v THEN TRUE_TEXT ELSE FALSE_TEXT)
    ELSE v

\* the text insert_batch_copy writes for the value v of column f: "\N" for
\* None, else str(v) (isoformat() for a datetime)
CopyText(f, v) ==
    IF f \in NumberColumns THEN (IF v = None THEN NULL_TEXT ELSE Str(v))
    ELSE IF f = "is_recurring" THEN (IF v THEN TRUE_TEXT ELSE FALSE_TEXT)
    ELSE v

\* the value copy_from(..., null="\\N") stores for the text t in column f
CopyRead(f, t) ==
    IF f \in NumberColumns THEN (IF t = COPY_NULL THEN None ELSE ParseNumber(t))
    ELSE IF f = "is_recurring" THEN t = TRUE_TEXT
    ELSE t

\* a dict of a batch as the row COPY stores for it
CopiedRow(row) == [f \in DOMAIN row |-> CopyRead(f, CopyText(f, row[f]))]

\* the keys of the dict literals the generators of the COPY script build, in
\* the order of the literal (the order row.values() and row.keys() follow)
KeyOrder ==
    [customers |-> <<"name", "email", "account_status">>,
     services |-> <<"name", "type", "base_price", "is_recurring", "billing_cycle">>,
     purchases |-> <<"customer_id", "service_id", "start_date", "end_date", "status">>,
     payments |-> <<"customer_id", "purchase_id", "amount", "currency", "payment_method", "status", "timestamp">>]

\* rows whose dicts were built with their first two keys the other way round
\* from the second row of a chunk on
RowKeysSwapped(t, i) ==
    IF i = 1 THEN KeyOrder[t] ELSE <<KeyOrder[t][2], KeyOrder[t][1]>> \o SubSeq(KeyOrder[t], 3, Len(KeyOrder[t]))

\* the key order of row i of a chunk for table t: every row of a stage is
\* built by the one dict literal of its generator
RowKeys(t, i) == KeyOrder[t]

\* sep.join(fields)
RECURSIVE Join(_, _)
Join(fields, sep) ==
    IF fields = <<>> THEN <<>>
    ELSE IF Len(fields) = 1 THEN fields[1]
    ELSE fields[1] \o <<sep>> \o Join(Tail(fields), sep)

\* the pieces of text between the occurrences of sep
RECURSIVE Split(_, _)
Split(text, sep) ==
    IF \A i \in DOMAIN text : text[i] # sep THEN <<text>>
    ELSE LET i == CHOOSE i \in DOMAIN text : text[i] = sep /\ \A j \in 1..(i - 1) : text[j] # sep
         IN <<SubSeq(text, 1, i - 1)>> \o Split(SubSeq(text, i + 1, Len(text)), sep)

\* the buffer insert_batch_copy fills: per row one line of the texts of
\* row.values(), joined by tabs and ended by a newline
CopyBuffer(batch, t) ==
    Flatten([i \in DOMAIN batch |-> Join([k \in DOMAIN RowKeys(t, i) |-> CopyText(RowKeys(t, i)[k], batch[i][RowKeys(t, i)[k]])], "\t") \o <<"\n">>])

\* whether COPY accepts the text t for column f
Accepts(f, t) == f \in NumberColumns /\ t # COPY_NULL => t # <<>> /\ \A i \in DOMAIN t : t[i] \in Range(DigitChar)

\* cursor.copy_from(output, table, sep="\t", columns=columns, null="\\N"):
\* the rows COPY stores for the buffer, the k-th field of each line going to
\* the k-th column; COPY fails as a whole, storing no row, on a line with a
\* wrong field count or a field its column does not accept
CopyFrom(buffer, columns) ==
    LET lines == SubSeq(Split(buffer, "\n"), 1, Len(Split(buffer, "\n")) - 1)
        fields == [i \in DOMAIN lines |-> Split(lines[i], "\t")]
    IN IF \E i \in DOMAIN lines : Len(fields[i]) # Len(columns) \/ \E k \in DOMAIN columns : ~Accepts(columns[k], fields[i][k])
       THEN <<>>
       ELSE [i \in DOMAIN lines |-> [f \in Range(columns) |-> CopyRead(f, fields[i][CHOOSE k \in DOMAIN columns : columns[k] = f])]]

\* insert_batch_copy(batch, session, table_name): nothing for an empty batch,
\* else one COPY of the buffer with columns=list(batch[0].keys()) and one
\* commit
InsertBatchCopy(st, batch, t) == IF batch = <<>> THEN st ELSE Insert(st, t, CopyFrom(CopyBuffer(batch, t), RowKeys(t, 1)))

\* insert_batch(batch) + session.commit() of populate_database_sqlalchemy
InsertBatch(st, batch, t) == Insert(st, t, batch)

\* the stages of main() in program order
MainStages(s) ==
    CASE s = "copy" -> <<"payments", "verify">>
      [] s = "clear" -> <<"clear", "verify">>
      [] OTHER -> <<"clear", "customers", "services", "purchases", "payments", "verify">>

\* the default row target of a stage function
DefaultRows(stage) ==
    CASE stage = "customers" -> N_CUSTOMERS
      [] stage = "purchases" -> N_PURCHASES
      [] stage = "payments" -> N_PAYMENTS
      [] OTHER -> 0

StageAfter(s, stage) == LET ms == MainStages(s) IN ms[(CHOOSE i \in DOMAIN ms : ms[i] = stage) + 1]

\* the stage function main() called last
LastStage == log[Len(log)]

\* main() reaches the call of the next stage function
Enter(stage) ==
    /\ pc' = stage
    /\ phase' = "call"
    /\ n_rows' = DefaultRows(stage)
    /\ batch_size' = BATCH_SIZE
    /\ batch_starts' = <<>>
    /\ results' = <<>>
    /\ collected' = 0
    /\ data' = <<>>
    /\ load_i' = 0
    /\ log' = Append(log, stage)

\* the running stage function returns value to its caller
Return(value) ==
    /\ err' = err
    /\ IF caller = "main"
       THEN /\ Enter(StageAfter(script, pc))
            /\ refs' = IF script = "django" /\ pc \in {"customers", "services", "purchases"} THEN [refs EXCEPT ![pc] = value] ELSE refs
       ELSE /\ pc' = pc
            /\ phase' = "returned"
            /\ UNCHANGED <<n_rows, batch_size, batch_starts, results, collected, data, load_i, log, refs>>

\* the running stage function raises e
Raise(e) ==
    /\ err' = Exception(e, <<>>)
    /\ pc' = IF caller = "main" THEN "except" ELSE pc
    /\ phase' = IF caller = "main" THEN "none" ELSE "raised"

---------------------------------------------------------------------------
(* Customers.                                                              *)

\* populate_db_sqlalchemy_w_copy.create_customers_bulk up to the submission
\* of the batches to the ProcessPoolExecutor
CopyCreateCustomersBegin ==
    /\ script = "copy" /\ pc = "customers" /\ phase = "call"
    /\ batch_starts' = BatchStarts(n_rows, batch_size)
    /\ results' = [k \in DOMAIN BatchStarts(n_rows, batch_size) |-> NotDone]
    /\ collected' = 0
    /\ data' = <<>>
    /\ load_i' = 0
    /\ phase' = IF BatchStarts(n_rows, batch_size) = <<>> THEN "load" ELSE "gen"
    /\ UNCHANGED <<storeVars, mainVars, histVars, n_rows, batch_size, refs, branch>>

\* process_customer_batch(args) in a pool worker
ProcessCustomerBatch(k) ==
    /\ pc = "customers" /\ phase = "gen"
    /\ k \in DOMAIN results /\ results[k] = NotDone
    /\ LET start == batch_starts[k]
           size == ActualBatchSize(start, batch_size, n_rows)
       IN \E st \in [1..size -> Draw(AccountStatusValues)] :
            results' = [results EXCEPT ![k] = Done([j \in 1..size |-> CustomerRow(start + j - 1, st[j])], <<>>)]
    /\ UNCHANGED <<storeVars, mainVars, histVars, phase, n_rows, batch_size, refs, batch_starts, collected, data, load_i, branch>>

\* a pool worker ends with an exception instead of a batch (the worker's own
\* code raises, its result cannot be pickled, or the worker process dies and
\* the pool is broken): the future of batch k holds the exception
WorkerRaises(k) ==
    /\ pc \in {"customers", "purchases", "payments"} /\ phase = "gen"
    /\ k \in DOMAIN results /\ results[k] = NotDone
    /\ results' = [results EXCEPT ![k] = Raised]
    /\ UNCHANGED <<storeVars, mainVars, histVars, phase, n_rows, batch_size, refs, batch_starts, collected, data, load_i, branch>>

\* a collection loop that passes over a failed batch and goes on
CollectBatchSkipFailed ==
    /\ phase = "gen"
    /\ collected < Len(batch_starts)
    /\ results[collected + 1] # NotDone
    /\ data' = data \o results[collected + 1].rows
    /\ collected' = collected + 1
    /\ branch' = branch \o results[collected + 1].same
    /\ phase' = IF collected + 1 = Len(batch_starts) THEN "load" ELSE "gen"
    /\ UNCHANGED <<mainVars, n_rows, batch_size, refs, batch_starts, results, load_i>>
    /\ UNCHANGED <<storeVars, histVars>>

\* a collection loop that goes on to the load loop after its first batch
CollectBatchEager ==
    /\ phase = "gen"
    /\ collected < Len(batch_starts)
    /\ results[collected + 1].state = "Done"
    /\ data' = data \o results[collected + 1].rows
    /\ collected' = collected + 1
    /\ branch' = branch \o results[collected + 1].same
    /\ phase' = "load"
    /\ UNCHANGED <<storeVars, histVars, mainVars, n_rows, batch_size, refs, batch_starts, results, load_i>>

\* a collection loop over the batches in the order their workers finish
\* (as_completed instead of executor.map)
CollectBatchAsCompleted ==
    /\ phase = "gen"
    /\ collected < Len(batch_starts)
    /\ \E k \in (collected + 1)..Len(results) :
         /\ results[k].state = "Done"
         /\ data' = data \o results[k].rows
         /\ branch' = branch \o results[k].same
         /\ results' = [results EXCEPT ![k] = results[collected + 1], ![collected + 1] = results[k]]
         /\ batch_starts' = [batch_starts EXCEPT ![k] = batch_starts[collected + 1], ![collected + 1] = batch_starts[k]]
    /\ collected' = collected + 1
    /\ phase' = IF collected + 1 = Len(batch_starts) THEN "load" ELSE "gen"
    /\ UNCHANGED <<storeVars, histVars, mainVars, n_rows, batch_size, refs, load_i>>

\* for i, batch in enumerate(batches): data.extend(batch) -- executor.map
\* yields the batches in submission order; a worker's exception is raised here
CollectBatch ==
    /\ phase = "gen"
    /\ collected < Len(batch_starts)
    /\ results[collected + 1] # NotDone
    /\ IF results[collected + 1] = Raised
       THEN /\ Raise("WorkerException")
            /\ UNCHANGED <<script, runs, session, exitcode, log, wide, caller>>
            /\ UNCHANGED <<n_rows, batch_size, refs, batch_starts, results, collected, data, load_i, branch>>
       ELSE /\ data' = data \o results[collected + 1].rows
            /\ collected' = collected + 1
            /\ branch' = branch \o results[collected + 1].same
            /\ phase' = IF collected + 1 = Len(batch_starts) THEN "load" ELSE "gen"
            /\ UNCHANGED <<mainVars, n_rows, batch_size, refs, batch_starts, results, load_i>>
    /\ UNCHANGED <<storeVars, histVars>>

\* session.commit(): the rows the session wrote are durable
Commit(s) == [s EXCEPT !.pending = 0]

\* session.rollback(): the n rows the session wrote to table t since its
\* last commit are gone; the identity sequences are not wound back
Rollback(st, t, n) == IF n = 0 THEN st ELSE [st EXCEPT ![t] = SubSeq(@, 1, Len(@) - n)]

\* a load loop whose iteration leaves the chunk in the session's open
\* transaction instead of committing it
LoadChunkNoCommit ==
    /\ phase = "load"
    /\ load_i < Len(data)
    /\ LET batch == PySlice(data, load_i, batch_size)
       IN /\ SetStore(IF script = "copy" THEN InsertBatchCopy(Store, batch, StageTable[pc]) ELSE InsertBatch(Store, batch, StageTable[pc]))
          /\ session' = IF script = "copy" THEN session ELSE [session EXCEPT !.pending = @ + Len(batch)]
    /\ load_i' = load_i + batch_size
    /\ UNCHANGED <<script, pc, runs, exitcode, err, log, wide, caller>>
    /\ UNCHANGED <<histVars, phase, n_rows, batch_size, refs, batch_starts, results, collected, data, branch>>

\* one iteration of "for i in range(0, len(data), batch_size)": load the chunk
\* data[i : i + batch_size] and commit it (insert_batch_copy commits on its own
\* raw connection and closes it; the other script commits the session)
LoadChunk ==
    /\ phase = "load"
    /\ load_i < Len(data)
    /\ LET batch == PySlice(data, load_i, batch_size)
       IN /\ SetStore(IF script = "copy" THEN InsertBatchCopy(Store, batch, StageTable[pc]) ELSE InsertBatch(Store, batch, StageTable[pc]))
          /\ session' = IF script = "copy" THEN session ELSE Commit(session)
    /\ load_i' = load_i + batch_size
    /\ UNCHANGED <<script, pc, runs, exitcode, err, log, wide, caller>>
    /\ UNCHANGED <<histVars, phase, n_rows, batch_size, refs, batch_starts, results, collected, data, branch>>

\* the same iteration when the database refuses the chunk or the connection
\* fails (in cursor.copy_from or conn.commit, in session.execute or
\* session.commit): the driver's exception leaves the stage function. The
\* failed statement leaves no row, but the identity sequence keeps the
\* numbers it gave out (none or all of the chunk's). insert_batch_copy has
\* no try/finally, so its cursor.close() and conn.close() are not reached
LoadChunkFails ==
    /\ phase = "load"
    /\ load_i < Len(data)
    /\ \E used \in {0, Len(PySlice(data, load_i, batch_size))} :
         /\ nextid' = [nextid EXCEPT ![StageTable[pc]] = @ + used]
         /\ UNCHANGED <<customers, services, purchases, payments>>
    /\ session' = IF script = "copy" THEN [session EXCEPT !.raw = @ + 1] ELSE session
    /\ Raise("DatabaseError")
    /\ UNCHANGED <<script, runs, exitcode, log, wide, caller>>
    /\ UNCHANGED <<histVars, n_rows, batch_size, refs, batch_starts, results, collected, data, load_i, branch>>

\* the load loop is over: the bulk stage function returns its data
BulkStageReturn ==
    /\ phase = "load"
    /\ load_i >= Len(data)
    /\ Return(data)
    /\ UNCHANGED <<storeVars, histVars, script, runs, session, exitcode, wide, caller, branch>>

---------------------------------------------------------------------------
(* SpecBatch: create_customers_bulk(session, n_customers, batch_size) of   *)
(* either SQLAlchemy script called on an empty store, for every row target *)
(* and batch size within the bounds.                                       *)

InitBatch ==
    /\ script \in {"copy", "sqla"}
    /\ pc = "customers"
    /\ caller = "call"
    /\ runs = 0
    /\ session = OpenSession
    /\ exitcode = -1
    /\ err = NoError
    /\ log = <<>>
    /\ wide \in BOOLEAN
    /\ StoreIn({EmptyStore})
    /\ phase = "call"
    /\ n_rows \in 0..MaxN
    /\ batch_size \in 1..MaxB
    /\ refs = NoRefs
    /\ batch_starts = <<>>
    /\ results = <<>>
    /\ collected = 0
    /\ data = <<>>
    /\ load_i = 0
    /\ branch = <<>>
    /\ HistIdle


\* the 0-based row indices batch k of the running stage covers
BatchIndices(k) == batch_starts[k]..(BatchEnd(batch_starts[k], batch_size, n_rows) - 1)

\* C1: the batch starts range(0, N, B) with each worker's end
\* min(start + B, N) give exactly ceil(N / B) batches; every batch but the
\* last has B rows and the last has the remainder; the index ranges are
\* pairwise disjoint and cover exactly [0, N), so the counts sum to N -- and
\* each worker returns exactly the rows of its range.
C1_BatchPartition ==
    script = "copy" /\ pc = "customers" /\ caller = "call" /\ phase # "call" =>
        LET K == Len(batch_starts)
        IN /\ K * batch_size >= n_rows
           /\ K > 0 => (K - 1) * batch_size < n_rows
           /\ \A k \in 1..K : k < K => ActualBatchSize(batch_starts[k], batch_size, n_rows) = batch_size
           /\ K > 0 => ActualBatchSize(batch_starts[K], batch_size, n_rows) = n_rows - (K - 1) * batch_size
           /\ K > 0 => ActualBatchSize(batch_starts[K], batch_size, n_rows) \in 1..batch_size
           /\ \A j, k \in 1..K : j # k => BatchIndices(j) \cap BatchIndices(k) = {}
           /\ UNION {BatchIndices(k) : k \in 1..K} = 0..(n_rows - 1)
           /\ SeqSum([k \in 1..K |-> ActualBatchSize(batch_starts[k], batch_size, n_rows)]) = n_rows
           /\ \A k \in 1..K : results[k].state = "Done" =>
                /\ Len(results[k].rows) = Cardinality(BatchIndices(k))
                /\ \A j \in DOMAIN results[k].rows : results[k].rows[j].name = CUSTOMER_PREFIX \o Str(batch_starts[k] + j - 1)
           /\ phase \in {"load", "returned"} => Len(data) = n_rows

\* C1 witness: a stage call whose row target is no multiple of the batch
\* size has run its batches (a full one and a truncated last one) and returned
C1_Witness ==
    /\ script = "copy" /\ pc = "customers" /\ phase = "returned" /\ caller = "call"
    /\ n_rows % batch_size # 0
    /\ Len(batch_starts) >= 2
    /\ Len(data) = n_rows

---------------------------------------------------------------------------
(* Customers and services of the other scripts.                            *)

\* the rows a stage just inserted, as the objects it holds (ids filled in)
AsObjects(rows, t) == WithIds(rows, nextid[t])

\* populate_database_sqlalchemy.create_customers_bulk: generate n rows,
\* bulk_save_objects, one commit
SqlaCreateCustomersBulk ==
    /\ script = "sqla" /\ pc = "customers" /\ phase = "call"
    /\ \E st \in [1..n_rows -> Draw(AccountStatusValues)] :
        LET rows == [j \in 1..n_rows |-> CustomerRow(j - 1, st[j])]
        IN /\ SetStore(Insert(Store, "customers", rows))
           /\ Return(AsObjects(rows, "customers"))
    /\ UNCHANGED <<histVars, script, runs, session, exitcode, wide, caller, branch>>

FAKER_NAME == <<"n", "a", "m", "e">>

\* CustomerFactory(): Faker name and email, account_status from the
\* factory's Iterator (position k: the number of customers built so far)
CustomerFactoryRow(k, d) == [name |-> FAKER_NAME \o Str(d), email |-> FAKER_NAME \o Str(d) \o EMAIL_SUFFIX, account_status |-> (k % 3) + 1]

\* one iteration of the loop of populate_database.create_customers
DjangoCreateCustomer ==
    /\ script = "django" /\ pc = "customers" /\ phase \in {"call", "loop"}
    /\ Len(data) < n_rows
    /\ \E d \in Draw(0..1) :
        LET row == CustomerFactoryRow(Len(data), d)
        IN /\ SetStore(Insert(Store, "customers", <<row>>))
           /\ data' = data \o AsObjects(<<row>>, "customers")
    /\ phase' = "loop"
    /\ UNCHANGED <<mainVars, histVars, n_rows, batch_size, refs, batch_starts, results, collected, load_i, branch>>

\* the loop of a stage function of populate_database is over: return the
\* list; create_payments first prints its shares, dividing by n_payments
DjangoStageReturn ==
    /\ script = "django" /\ pc \in {"customers", "purchases", "payments"}
    /\ phase = "loop" \/ (phase = "call" /\ pc = "customers")
    /\ Len(data) >= n_rows
    /\ IF pc = "payments" /\ n_rows = 0
       THEN /\ Raise("ZeroDivisionError")
            /\ UNCHANGED <<n_rows, batch_size, refs, batch_starts, results, collected, data, load_i, log>>
       ELSE Return(data)
    /\ UNCHANGED <<storeVars, histVars, script, runs, session, exitcode, wide, caller, branch>>

\* the price lists a run draws for the catalog: every price the lowest of
\* PriceDraws, and in a wide run up to MaxHigh of them the highest
ServicePrices ==
    LET ends == [i \in DOMAIN Catalog |-> <<PriceRange(Catalog[i])[1] * 100, PriceRange(Catalog[i])[2] * 100>>]
    IN {[i \in DOMAIN Catalog |-> IF wide /\ i \in Range(h) THEN ends[i][2] ELSE ends[i][1]] :
           h \in [1..MaxHigh -> 0..Len(Catalog)]}

\* create_custom_services_bulk / create_custom_services: one row per
\* catalog name, inserted and committed
CreateCustomServices ==
    /\ pc = "services" /\ phase = "call"
    /\ \E price \in ServicePrices :
        /\ LET rows == [i \in DOMAIN Catalog |-> ServiceRow(Catalog[i], price[i])]
           IN /\ SetStore(IF script = "copy" THEN InsertBatchCopy(Store, rows, "services") ELSE Insert(Store, "services", rows))
              /\ Return(AsObjects(rows, "services"))
    /\ UNCHANGED <<histVars, script, runs, session, exitcode, wide, caller, branch>>

---------------------------------------------------------------------------
(* Purchases.                                                              *)

\* a choice that only needs a weight for each value and ignores the rest
WeightsOkLoose(n, p) == Len(p) >= n /\ SeqSum([i \in DOMAIN p |-> p[i][1]]) > 0

\* whether np.random.choice(n, p=p) accepts its arguments: p has n entries
\* and sums to 1 (the normalised weights do unless they are all zero)
WeightsOk(n, p) == Len(p) = n /\ SeqSum([i \in DOMAIN p |-> p[i][1]]) > 0

NpChoiceAny(n, p) == 1..n

\* the indices np.random.choice(n, p=p) can return
NpChoiceP(n, p) == {i \in 1..n : p[i][1] > 0}

\* the reference lists create_purchases_bulk fetches: customer ids, and per
\* service its id and its is_recurring flag; with them every worker is handed
\* the module's SERVICE_POPULARITY_WEIGHTS
PurchaseRefs(st) ==
    [NoRefs EXCEPT !.customer_ids = [i \in DOMAIN st.customers |-> st.customers[i].id],
                   !.service_ids = [i \in DOMAIN st.services |-> st.services[i].id],
                   !.service_is_recurring = [i \in DOMAIN st.services |-> st.services[i].is_recurring],
                   !.service_popularity_weights = SERVICE_POPULARITY_WEIGHTS]

\* the draws behind one purchase row: customer index, service index,
\* day offset, status
PurchaseDraws(r, days, statuses) ==
    [ci : Pick(DOMAIN r.customer_ids), si : Pick(NpChoiceP(Len(r.service_ids), r.service_popularity_weights)), d : days, st : statuses]

PurchaseOfAlwaysEnd(r, c) == PurchaseRow(r.customer_ids[c.ci], r.service_ids[c.si], TRUE, c.d, c.st)

\* the row process_purchase_batch builds from its draws: customer id, service
\* id and recurrence flag are read at the drawn indices of the parallel lists
PurchaseOf(r, c) == PurchaseRow(r.customer_ids[c.ci], r.service_ids[c.si], r.service_is_recurring[c.si], c.d, c.st)

NoReferenceDataBoth(a, b) == a = <<>> /\ b = <<>>

\* "if not customers or not services" / "if not customer_ids or not
\* purchase_ids": the guard of every dependent stage
NoReferenceData(a, b) == a = <<>> \/ b = <<>>

\* populate_db_sqlalchemy_w_copy.create_purchases_bulk up to executor.map:
\* fetch, fail on an empty reference list, submit the batches
CopyCreatePurchasesBegin ==
    /\ script = "copy" /\ pc = "purchases" /\ phase = "call"
    /\ LET r == PurchaseRefs(Store)
       IN IF NoReferenceData(r.customer_ids, r.service_ids)
          THEN /\ Raise("ValueError: no reference data")
               /\ UNCHANGED <<refs, batch_starts, results, collected, data, load_i>>
          ELSE /\ refs' = r
               /\ batch_starts' = BatchStarts(n_rows, batch_size)
               /\ results' = [k \in DOMAIN BatchStarts(n_rows, batch_size) |-> NotDone]
               /\ collected' = 0
               /\ data' = <<>>
               /\ load_i' = 0
               /\ phase' = IF BatchStarts(n_rows, batch_size) = <<>> THEN "load" ELSE "gen"
               /\ UNCHANGED <<pc, err>>
    /\ UNCHANGED <<storeVars, histVars, script, runs, session, exitcode, log, wide, caller, n_rows, batch_size, branch>>

\* process_purchase_batch(args) in a pool worker; np.random.choice raises
\* when the weights do not fit the services
ProcessPurchaseBatch(k) ==
    /\ pc = "purchases" /\ phase = "gen"
    /\ k \in DOMAIN results /\ results[k] = NotDone
    /\ LET size == ActualBatchSize(batch_starts[k], batch_size, n_rows)
       IN IF ~WeightsOk(Len(refs.service_ids), refs.service_popularity_weights)
          THEN results' = [results EXCEPT ![k] = Raised]
          ELSE \E c \in [1..size -> PurchaseDraws(refs, DrawEnds(RandomRandint(1, 365)), Draw(PurchaseStatusValues))] :
                 results' = [results EXCEPT ![k] = Done([j \in 1..size |-> PurchaseOf(refs, c[j])], <<>>)]
    /\ UNCHANGED <<storeVars, mainVars, histVars, phase, n_rows, batch_size, refs, batch_starts, collected, data, load_i, branch>>

\* populate_database_sqlalchemy.create_purchases_bulk: fetch, fail on an
\* empty reference list, generate n rows in a loop, bulk_save_objects, commit
SqlaCreatePurchasesBulk ==
    /\ script = "sqla" /\ pc = "purchases" /\ phase = "call"
    /\ LET r == PurchaseRefs(Store)
       IN IF NoReferenceData(r.customer_ids, r.service_ids)
          THEN /\ Raise("ValueError: no reference data")
               /\ UNCHANGED <<storeVars, refs, n_rows, batch_size, batch_starts, results, collected, data, load_i, log>>
          ELSE IF n_rows > 0 /\ ~WeightsOk(Len(r.service_ids), SERVICE_POPULARITY_WEIGHTS)
          THEN /\ Raise("ValueError")
               /\ UNCHANGED <<storeVars, refs, n_rows, batch_size, batch_starts, results, collected, data, load_i, log>>
          ELSE \E c \in [1..n_rows -> PurchaseDraws(r, DrawEnds(RandomRandint(1, 365)), Draw(PurchaseStatusValues))] :
                 LET rows == [j \in 1..n_rows |-> PurchaseOf(r, c[j])]
                 IN /\ SetStore(Insert(Store, "purchases", rows))
                    /\ Return(AsObjects(rows, "purchases"))
    /\ UNCHANGED <<histVars, script, runs, session, exitcode, wide, caller, branch>>

\* session.bulk_save_objects(rows); session.commit() of the stages that load
\* in one piece, when the database refuses the INSERT or the commit fails
\* (with no customer to save the session has sent nothing: bulk_save_objects
\* of an empty list and the commit of an unused session reach no database)
BulkSaveFails ==
    /\ script = "sqla" /\ pc \in {"customers", "services", "purchases"} /\ phase = "call"
    /\ pc = "customers" => n_rows > 0
    /\ pc = "purchases" =>
         /\ ~NoReferenceData(PurchaseRefs(Store).customer_ids, PurchaseRefs(Store).service_ids)
         /\ n_rows > 0 => WeightsOk(Len(PurchaseRefs(Store).service_ids), SERVICE_POPULARITY_WEIGHTS)
    /\ \E used \in {0, IF pc = "services" THEN Len(Catalog) ELSE n_rows} :
         /\ nextid' = [nextid EXCEPT ![StageTable[pc]] = @ + used]
         /\ UNCHANGED <<customers, services, purchases, payments>>
    /\ Raise("DatabaseError")
    /\ UNCHANGED <<script, runs, session, exitcode, log, wide, caller>>
    /\ UNCHANGED <<histVars, n_rows, batch_size, refs, batch_starts, results, collected, data, load_i, branch>>

\* the steps of a direct call of create_customers_bulk
NextBatch ==
    \/ CopyCreateCustomersBegin
    \/ \E k \in 1..MaxN : ProcessCustomerBatch(k)
    \/ \E k \in 1..MaxN : WorkerRaises(k)
    \/ CollectBatch
    \/ LoadChunk
    \/ LoadChunkFails
    \/ BulkStageReturn
    \/ SqlaCreateCustomersBulk
    \/ BulkSaveFails

SpecBatch == InitBatch /\ [][NextBatch]_vars

\* "if not customers: customers = list(Customer.objects.all())"
OrAll(given, table) == IF given = <<>> THEN table ELSE given

\* populate_database.create_purchases_with_popularity before its loop
DjangoCreatePurchasesBegin ==
    /\ script = "django" /\ pc = "purchases" /\ phase = "call"
    /\ LET cs == OrAll(refs.customers, customers)
           ss == OrAll(refs.services, services)
       IN IF NoReferenceData(cs, ss)
          THEN /\ Raise("ValueError: no reference data")
               /\ refs' = refs
          ELSE /\ refs' = [refs EXCEPT !.customers = cs, !.services = ss]
               /\ phase' = "loop"
               /\ UNCHANGED <<pc, err>>
    /\ data' = <<>>
    /\ UNCHANGED <<storeVars, histVars, script, runs, session, exitcode, log, wide, caller, n_rows, batch_size, batch_starts, results, collected, load_i, branch>>

\* PurchaseWithExistingFactory(customer=customer, service=service): start_date
\* and end_date as the factory computes them, status from its Iterator
PurchaseWithExistingFactory(customer, service, d, k) == PurchaseRow(customer.id, service.id, service.is_recurring, d, (k % 4) + 1)

\* one iteration of the loop of create_purchases_with_popularity
DjangoCreatePurchase ==
    /\ script = "django" /\ pc = "purchases" /\ phase = "loop"
    /\ Len(data) < n_rows
    /\ IF ~WeightsOk(Len(refs.services), SERVICE_POPULARITY_WEIGHTS)
       THEN /\ Raise("ValueError")
            /\ UNCHANGED <<storeVars, data>>
       ELSE /\ \E ci \in Pick(DOMAIN refs.customers), si \in Pick(NpChoiceP(Len(refs.services), SERVICE_POPULARITY_WEIGHTS)), d \in DrawEnds(NpRandomRandint(1, 365)) :
                LET row == PurchaseWithExistingFactory(refs.customers[ci], refs.services[si], d, Len(data))
                IN /\ SetStore(Insert(Store, "purchases", <<row>>))
                   /\ data' = data \o AsObjects(<<row>>, "purchases")
            /\ UNCHANGED <<pc, phase, err>>
    /\ UNCHANGED <<histVars, script, runs, session, exitcode, log, wide, caller, n_rows, batch_size, refs, batch_starts, results, collected, load_i, branch>>

\* PurchaseFactory(): a fresh customer and a fresh service from the
\* sub-factories (is_recurring: Faker pybool), then the purchase
PurchaseFactoryCreate ==
    /\ script = "factory" /\ pc = "purchases" /\ phase \in {"call", "loop"}
    /\ Len(data) < n_rows
    /\ \E rec \in BOOLEAN, d \in DrawEnds(NpRandomRandint(1, 365)) :
        LET k == Len(data)
            st1 == Insert(Store, "customers", <<CustomerFactoryRow(k, 0)>>)
            st2 == Insert(st1, "services", <<ServiceFactoryRow(k, 1000 + k, rec)>>)
            row == PurchaseRow(nextid["customers"], nextid["services"], rec, d, (k % 4) + 1)
        IN /\ SetStore(Insert(st2, "purchases", <<row>>))
           /\ data' = data \o AsObjects(<<row>>, "purchases")
    /\ phase' = "loop"
    /\ UNCHANGED <<mainVars, histVars, n_rows, batch_size, refs, batch_starts, results, collected, load_i, branch>>

\* the requested number of PurchaseFactory() calls has been made
PurchaseFactoryDone ==
    /\ script = "factory" /\ pc = "purchases" /\ phase \in {"call", "loop"}
    /\ Len(data) >= n_rows
    /\ Return(data)
    /\ UNCHANGED <<storeVars, histVars, script, runs, session, exitcode, wide, caller, branch>>

---------------------------------------------------------------------------
(* Payments.                                                               *)

ById(rows, id) == CHOOSE r \in Range(rows) : r.id = id

\* the lists create_payments_bulk fetches: the customer ids, and per row of
\* purchases JOIN services its purchase id, customer id and base price
PaymentRefs(st) ==
    LET joined == SelectSeq(st.purchases, LAMBDA p : \E s \in Range(st.services) : s.id = p.service_id)
    IN [NoRefs EXCEPT !.customer_ids = [i \in DOMAIN st.customers |-> st.customers[i].id],
                      !.purchase_ids = [i \in DOMAIN joined |-> joined[i].id],
                      !.purchase_customer_ids = [i \in DOMAIN joined |-> joined[i].customer_id],
                      !.service_base_prices = [i \in DOMAIN joined |-> ById(st.services, joined[i].service_id).base_price]]

\* the draws behind one payment row: purchase index, same_customer_mask
\* entry, the index random.choice(customer_ids) would pick, and the rest
PaymentDraws(r, curs, meths, statuses, days) ==
    [pi : Pick(DOMAIN r.purchase_ids), same : BOOLEAN, ci : Pick(DOMAIN r.customer_ids), cur : curs, meth : meths, st : statuses, d : days]

PaymentOfIndexAsId(r, c) ==
    PaymentRow(IF c.same THEN r.purchase_customer_ids[c.pi] ELSE c.ci, c.pi, r.service_base_prices[c.pi], c.cur, c.meth, c.st, c.d)

PaymentOfFirstPrice(r, c) ==
    PaymentRow(IF c.same THEN r.purchase_customer_ids[c.pi] ELSE r.customer_ids[c.ci], r.purchase_ids[c.pi], r.service_base_prices[1], c.cur, c.meth, c.st, c.d)

\* the dict process_payment_batch builds from its draws: purchase id, the
\* purchase's customer id and the price are read at the one drawn index
\* (float() of the value of a Float column is that value); off the mask the
\* customer is random.choice(customer_ids)
PaymentOf(r, c) ==
    PaymentRow(IF c.same THEN r.purchase_customer_ids[c.pi] ELSE r.customer_ids[c.ci], r.purchase_ids[c.pi], r.service_base_prices[c.pi], c.cur, c.meth, c.st, c.d)

\* create_payments_bulk of either SQLAlchemy script up to executor.map
CreatePaymentsBulkBegin ==
    /\ script \in {"sqla", "copy"} /\ pc = "payments" /\ phase = "call"
    /\ LET r == PaymentRefs(Store)
       IN IF NoReferenceData(r.customer_ids, r.purchase_ids)
          THEN /\ Raise("ValueError: no reference data")
               /\ UNCHANGED <<refs, batch_starts, results, collected, data, load_i>>
          ELSE /\ refs' = r
               /\ batch_starts' = BatchStarts(n_rows, batch_size)
               /\ results' = [k \in DOMAIN BatchStarts(n_rows, batch_size) |-> NotDone]
               /\ collected' = 0
               /\ data' = <<>>
               /\ load_i' = 0
               /\ phase' = IF BatchStarts(n_rows, batch_size) = <<>> THEN "load" ELSE "gen"
               /\ UNCHANGED <<pc, err>>
    /\ UNCHANGED <<storeVars, histVars, script, runs, session, exitcode, log, wide, caller, n_rows, batch_size, branch>>

\* process_payment_batch(args) in a pool worker
ProcessPaymentBatch(k) ==
    /\ pc = "payments" /\ phase = "gen"
    /\ k \in DOMAIN results /\ results[k] = NotDone
    /\ LET size == ActualBatchSize(batch_starts[k], batch_size, n_rows)
       IN \E c \in [1..size -> PaymentDraws(refs, Draw(CurrencyValues), Draw(PaymentMethodValues), Draw(PaymentStatusValues), DrawEnds(RandomRandint(1, 365)))] :
            results' = [results EXCEPT ![k] = Done([j \in 1..size |-> PaymentOf(refs, c[j])], [j \in 1..size |-> c[j].same])]
    /\ UNCHANGED <<storeVars, mainVars, histVars, phase, n_rows, batch_size, refs, batch_starts, collected, data, load_i, branch>>

\* populate_database.create_payments before its loop
DjangoCreatePaymentsBegin ==
    /\ script = "django" /\ pc = "payments" /\ phase = "call"
    /\ LET cs == OrAll(refs.customers, customers)
           ps == OrAll(refs.purchases, purchases)
       IN IF NoReferenceData(cs, ps)
          THEN /\ Raise("ValueError: no reference data")
               /\ refs' = refs
          ELSE /\ refs' = [refs EXCEPT !.customers = cs, !.purchases = ps]
               /\ phase' = "loop"
               /\ UNCHANGED <<pc, err>>
    /\ data' = <<>>
    /\ UNCHANGED <<storeVars, histVars, script, runs, session, exitcode, log, wide, caller, n_rows, batch_size, batch_starts, results, collected, load_i, branch>>

\* a different-customer branch that draws from all customers
OtherCustomersAll(cs, purchase) == cs

\* other_customers = [c for c in customers if c != purchase.customer]
OtherCustomers(cs, purchase) == SelectSeq(cs, LAMBDA c : c.id # purchase.customer_id)

\* one iteration of the loop of create_payments; np.random.choice raises on
\* an empty other_customers
DjangoCreatePayment ==
    /\ script = "django" /\ pc = "payments" /\ phase = "loop"
    /\ Len(data) < n_rows
    /\ \E pi \in Pick(DOMAIN refs.purchases), same \in BOOLEAN :
        LET purchase == refs.purchases[pi]
            others == OtherCustomers(refs.customers, purchase)
        IN IF ~same /\ others = <<>>
           THEN /\ Raise("ValueError: a must be non-empty")
                /\ UNCHANGED <<storeVars, data, branch>>
           ELSE /\ \E oi \in (IF same THEN {1} ELSE Pick(DOMAIN others)), cur \in Draw(CurrencyValues), meth \in Draw(PaymentMethodValues), st \in Draw(PaymentStatusValues), d \in DrawEnds(NpRandomRandint(1, 365)) :
                    LET cid == IF same THEN purchase.customer_id ELSE others[oi].id
                        row == PaymentRow(cid, purchase.id, ById(services, purchase.service_id).base_price, cur, meth, st, d)
                    IN /\ SetStore(Insert(Store, "payments", <<row>>))
                       /\ data' = data \o AsObjects(<<row>>, "payments")
                /\ branch' = Append(branch, same)
                /\ UNCHANGED <<pc, phase, err>>
    /\ UNCHANGED <<histVars, script, runs, session, exitcode, log, wide, caller, n_rows, batch_size, refs, batch_starts, results, collected, load_i>>

---------------------------------------------------------------------------
(* SpecStage: one call of a purchase or payment generator -- the stage     *)
(* functions of the three population scripts and PurchaseFactory -- on a   *)
(* store left by earlier runs, for every row target and batch size within  *)
(* the bounds.                                                             *)

\* the scripts that populate the store
PopulationScripts == {"copy", "sqla", "django"}

Generators == PopulationScripts \cup {"factory"}

InitStage ==
    /\ script \in Generators
    /\ pc \in {"purchases", "payments"}
    /\ script = "factory" => pc = "purchases"
    /\ caller = "call"
    /\ runs = 0
    /\ session = IF script \in {"django", "factory"} THEN NoSession ELSE OpenSession
    /\ exitcode = -1
    /\ err = NoError
    /\ log = <<>>
    /\ wide \in BOOLEAN
    /\ StoreIn(IF wide THEN {SeedStore(1, 1, 1, 0, 0)} ELSE SeedStores)
    /\ phase = "call"
    /\ n_rows \in (IF wide THEN {1} ELSE 0..MaxStageN)
    /\ batch_size \in (IF wide THEN {1} ELSE 1..MaxStageB)
    /\ refs = NoRefs
    /\ batch_starts = <<>>
    /\ results = <<>>
    /\ collected = 0
    /\ data = <<>>
    /\ load_i = 0
    /\ branch = <<>>
    /\ firstid = [t \in Tables |-> 0]
    /\ seq_before = nextid

NextStage ==
    \/ CopyCreatePurchasesBegin
    \/ \E k \in 1..MaxStageN : ProcessPurchaseBatch(k)
    \/ SqlaCreatePurchasesBulk
    \/ DjangoCreatePurchasesBegin
    \/ DjangoCreatePurchase
    \/ PurchaseFactoryCreate
    \/ PurchaseFactoryDone
    \/ CreatePaymentsBulkBegin
    \/ \E k \in 1..MaxStageN : ProcessPaymentBatch(k)
    \/ \E k \in 1..MaxStageN : WorkerRaises(k)
    \/ DjangoCreatePaymentsBegin
    \/ DjangoCreatePayment
    \/ DjangoStageReturn
    \/ CollectBatch
    \/ LoadChunk
    \/ LoadChunkFails
    \/ BulkSaveFails
    \/ BulkStageReturn

SpecStage == InitStage /\ [][NextStage]_vars

\* the rows the running call has generated so far: the rows collected or
\* created, and the batches the workers returned that are not collected yet
GeneratedRows == data \o Flatten([k \in DOMAIN results |-> IF k > collected THEN results[k].rows ELSE <<>>])

\* the 95% mask entries of GeneratedRows, row by row
GeneratedSame == branch \o Flatten([k \in DOMAIN results |-> IF k > collected THEN results[k].same ELSE <<>>])

\* the rows of table t the running call has inserted
InsertedRows(t) == SelectSeq(Store[t], LAMBDA r : r.id >= seq_before[t])

EndDateRule(r) ==
    LET service == ById(services, r.service_id)
    IN /\ (r.end_date # None) <=> service.is_recurring
       /\ r.end_date # None => r.end_date = r.start_date + 30 /\ r.start_date < r.end_date

\* C2: every purchase row a generator produces (process_purchase_batch,
\* create_purchases_bulk, PurchaseFactory, PurchaseWithExistingFactory) has a
\* non-null end_date exactly when its service is recurring, and then
\* end_date = start_date + 30 days, so start_date < end_date.
C2_PurchaseEndDate ==
    caller = "call" /\ pc = "purchases" =>
        /\ \A j \in DOMAIN GeneratedRows : EndDateRule(GeneratedRows[j])
        /\ \A j \in DOMAIN InsertedRows("purchases") : EndDateRule(InsertedRows("purchases")[j])

\* C2 witness: a worker-generated stage has returned and loaded a purchase
\* of a recurring service (with an end date) and one of a non-recurring
\* service (without)
C2_Witness ==
    /\ caller = "call" /\ script = "copy" /\ pc = "purchases" /\ phase = "returned"
    /\ Len(InsertedRows("purchases")) = 2
    /\ \E i, j \in DOMAIN data :
        /\ data[i].end_date = None /\ ~ById(services, data[i].service_id).is_recurring
        /\ data[j].end_date = data[j].start_date + 30 /\ ById(services, data[j].service_id).is_recurring

\* the price, in cents, of the service of the purchase a payment references
PriceOfPurchase(r) == ById(services, ById(purchases, r.purchase_id).service_id).base_price

\* C3: every payment row the payment generators produce -- the dict of a
\* worker and the row stored for it -- carries the base_price of the service
\* of the very purchase it references, and on the 95% branch the customer of
\* that same purchase.
C3_PaymentAmount ==
    caller = "call" /\ pc = "payments" =>
        /\ \A j \in DOMAIN GeneratedRows :
            LET r == GeneratedRows[j]
            IN /\ r.amount = PriceOfPurchase(r)
               /\ GeneratedSame[j] => r.customer_id = ById(purchases, r.purchase_id).customer_id
        /\ \A j \in DOMAIN InsertedRows("payments") : InsertedRows("payments")[j].amount = PriceOfPurchase(InsertedRows("payments")[j])

\* C3 witness: a bulk payment stage has returned and loaded payments for two
\* purchases whose services have different prices
C3_Witness ==
    /\ caller = "call" /\ script = "sqla" /\ pc = "payments" /\ phase = "returned"
    /\ Len(InsertedRows("payments")) = 2
    /\ \E i, j \in DOMAIN InsertedRows("payments") :
        /\ InsertedRows("payments")[i].purchase_id # InsertedRows("payments")[j].purchase_id
        /\ InsertedRows("payments")[i].amount # InsertedRows("payments")[j].amount

\* C4 as stated: in every variant a payment generated on the 5% branch has a
\* customer other than its purchase's customer, and only the 95% branch
\* gives the purchase's own customer.
C4_Original ==
    caller = "call" /\ pc = "payments" =>
        \A j \in DOMAIN GeneratedRows :
            GeneratedSame[j] <=> GeneratedRows[j].customer_id = ById(purchases, GeneratedRows[j].purchase_id).customer_id

\* C5: no generator emits an id outside its reference data: a generated
\* purchase has customer_id and service_id among the fetched customer and
\* service ids, a generated payment has purchase_id and customer_id among the
\* fetched purchase and customer ids -- which are the ids the store holds.
C5_ReferentialIntegrity ==
    caller = "call" /\ script # "factory" /\ pc \in {"purchases", "payments"} =>
        /\ phase \in {"gen", "load"} /\ pc = "purchases" =>
            Range(refs.customer_ids) = SeqIds(customers) /\ Range(refs.service_ids) = SeqIds(services)
        /\ phase \in {"gen", "load"} /\ pc = "payments" =>
            Range(refs.customer_ids) = SeqIds(customers) /\ Range(refs.purchase_ids) = SeqIds(purchases)
        /\ \A j \in DOMAIN GeneratedRows :
            LET r == GeneratedRows[j]
            IN /\ r.customer_id \in SeqIds(customers)
               /\ pc = "purchases" => r.service_id \in SeqIds(services)
               /\ pc = "payments" => r.purchase_id \in SeqIds(purchases)
        /\ ForeignKeysHold(Store)

\* C5 witness: on a store whose ids do not start at 1, a payment stage has
\* returned rows that reference two different purchases, one of them on the
\* 5% branch
C5_Witness ==
    /\ caller = "call" /\ script = "copy" /\ pc = "payments" /\ phase = "returned"
    /\ customers # <<>> /\ customers[1].id > 1
    /\ Len(data) = 2 /\ data[1].purchase_id # data[2].purchase_id
    /\ branch = <<TRUE, FALSE>>

\* a dependent stage is about to be called without the reference data it needs
CalledWithoutReferences ==
    /\ caller = "call" /\ script \in PopulationScripts /\ phase = "call"
    /\ \/ pc = "purchases" /\ (customers = <<>> \/ services = <<>>)
       \/ pc = "payments" /\ (customers = <<>> \/ purchases = <<>>)

\* C10: a purchase stage called without customers or without services, and a
\* payment stage called without customers or without purchases, raises at
\* once: no batch is submitted to a worker, no row is generated, nothing is
\* loaded, and the four tables and their sequences are as they were.
C10_FailFast ==
    [][CalledWithoutReferences =>
        /\ phase' = "raised" /\ err' = Exception("ValueError: no reference data", <<>>)
        /\ batch_starts' = <<>> /\ results' = <<>> /\ data' = <<>>
        /\ UNCHANGED storeVars]_vars

\* C10 witness: a payment stage called on a store with customers and services
\* but no purchases has raised, the store untouched
C10_Witness ==
    /\ caller = "call" /\ pc = "payments" /\ phase = "raised"
    /\ err = Exception("ValueError: no reference data", <<>>)
    /\ customers # <<>> /\ services # <<>> /\ purchases = <<>>
    /\ nextid = seq_before /\ results = <<>> /\ data = <<>>

---------------------------------------------------------------------------
(* Spec: main() of the four scripts, run one after the other on a store.   *)

Scripts == PopulationScripts \cup {"clear"}

Init ==
    /\ script = "none"
    /\ pc = "idle"
    /\ caller = "main"
    /\ runs = 0
    /\ session = NoSession
    /\ exitcode = -1
    /\ err = NoError
    /\ log = <<>>
    /\ wide = FALSE
    /\ StoreIn(SeedStores)
    /\ StageIdle
    /\ firstid = [t \in Tables |-> 0]
    /\ seq_before = nextid

\* python <script>: main() up to the call of its first stage function
\* (session = get_session() in the SQLAlchemy scripts)
StartMain(s) ==
    /\ caller = "main"
    /\ pc \in {"idle", "exit"}
    /\ runs < MaxRuns
    /\ script' = s
    /\ session' = IF s = "django" THEN NoSession ELSE OpenSession
    /\ exitcode' = -1
    /\ err' = NoError
    /\ pc' = MainStages(s)[1]
    /\ phase' = "call"
    /\ n_rows' = DefaultRows(MainStages(s)[1])
    /\ batch_size' = BATCH_SIZE
    /\ refs' = NoRefs
    /\ batch_starts' = <<>>
    /\ results' = <<>>
    /\ collected' = 0
    /\ data' = <<>>
    /\ load_i' = 0
    /\ branch' = <<>>
    /\ log' = <<MainStages(s)[1]>>
    /\ seq_before' = nextid
    /\ UNCHANGED <<storeVars, runs, wide, caller, firstid>>

\* clear_database as main() calls it
MainClear ==
    /\ caller = "main" /\ pc = "clear" /\ phase = "call"
    /\ LET r == ClearDatabase(script, Store)
       IN IF r.ok
          THEN /\ SetStore(r.store)
               /\ Return(None)
          ELSE /\ Raise("IntegrityError")
               /\ UNCHANGED <<storeVars, n_rows, batch_size, refs, batch_starts, results, collected, data, load_i, log>>
    /\ UNCHANGED <<histVars, script, runs, session, exitcode, wide, caller, branch>>

\* print_statistics / print_clearance_statistics, and in populate_database
\* print_service_popularity_stats and verify_payment_amounts, which divide
\* by the purchase count per service and by the payment count
Verify ==
    /\ caller = "main" /\ pc = "verify" /\ phase = "call"
    /\ IF script = "django" /\ ((services # <<>> /\ purchases = <<>>) \/ payments = <<>>)
       THEN Raise("ZeroDivisionError")
       ELSE /\ pc' = IF script = "django" THEN "return" ELSE "finally"
            /\ phase' = "none"
            /\ err' = err
    /\ UNCHANGED <<storeVars, histVars, script, runs, session, exitcode, log, wide, caller, n_rows, batch_size, refs, batch_starts, results, collected, data, load_i, branch>>

\* except Exception: report, session.rollback(), sys.exit(1)
HandleException ==
    /\ caller = "main" /\ pc = "except"
    /\ exitcode' = 1
    /\ session' = IF session.state = "none" THEN session ELSE [session EXCEPT !.rollbacks = @ + 1, !.pending = 0]
    /\ SetStore(Rollback(Store, LastStage, session.pending))
    /\ pc' = IF script = "django" THEN "return" ELSE "finally"
    /\ UNCHANGED <<histVars, script, runs, err, log, wide, caller, stageVars>>

\* finally: close_session(session)
Finally ==
    /\ caller = "main" /\ pc = "finally"
    /\ session' = [session EXCEPT !.state = "closed"]
    /\ pc' = "return"
    /\ UNCHANGED <<storeVars, histVars, script, runs, exitcode, err, log, wide, caller, stageVars>>

\* main() is over and the process exits: 0 unless sys.exit(1) was called
ProcessExit ==
    /\ caller = "main" /\ pc = "return"
    /\ exitcode' = IF exitcode = -1 THEN 0 ELSE exitcode
    /\ pc' = "exit"
    /\ runs' = runs + 1
    /\ UNCHANGED <<storeVars, histVars, script, session, err, log, wide, caller, stageVars>>

Next ==
    \/ \E s \in Scripts : StartMain(s)
    \/ MainClear
    \/ SqlaCreateCustomersBulk
    \/ DjangoCreateCustomer
    \/ CreateCustomServices
    \/ SqlaCreatePurchasesBulk
    \/ DjangoCreatePurchasesBegin
    \/ DjangoCreatePurchase
    \/ CreatePaymentsBulkBegin
    \/ \E k \in 1..N_PAYMENTS : ProcessPaymentBatch(k)
    \/ \E k \in 1..N_PAYMENTS : WorkerRaises(k)
    \/ DjangoCreatePaymentsBegin
    \/ DjangoCreatePayment
    \/ DjangoStageReturn
    \/ CollectBatch
    \/ LoadChunk
    \/ LoadChunkFails
    \/ BulkSaveFails
    \/ BulkStageReturn
    \/ Verify
    \/ HandleException
    \/ Finally
    \/ ProcessExit

Spec == Init /\ [][Next]_vars

\* the stage order a population run is to follow
STAGE_ORDER == <<"clear", "customers", "services", "purchases", "payments", "verify">>

\* C6 as stated: main() of every population script calls the stages in the
\* order clear, customers, services, purchases, payments, verification: what
\* it has called so far is a prefix of that order, and all of it once the
\* run has succeeded.
C6_Original ==
    caller = "main" /\ script \in PopulationScripts =>
        /\ Len(log) <= Len(STAGE_ORDER) /\ log = SubSeq(STAGE_ORDER, 1, Len(log))
        /\ pc = "exit" /\ exitcode = 0 => log = STAGE_ORDER

\* C7 as stated: whatever the tables held before, after a successful run of
\* a population script they hold exactly N_CUSTOMERS customers, one service
\* per catalog name, N_PURCHASES purchases and N_PAYMENTS payments.
C7_Original ==
    caller = "main" /\ script \in PopulationScripts /\ pc = "exit" /\ exitcode = 0 =>
        /\ Len(customers) = N_CUSTOMERS
        /\ Len(services) = Len(Catalog)
        /\ Len(purchases) = N_PURCHASES
        /\ Len(payments) = N_PAYMENTS

---------------------------------------------------------------------------
(* Failure of a generation worker.                                         *)

\* a worker of the stage this run of main() is in, or was last in, raised
WorkerRaised == \E k \in DOMAIN results : results[k] = Raised

\* C11: when a generation worker raises during a stage of a run of main(),
\* no row of that stage is loaded (the load loop is never entered and the
\* stage's table keeps its rows), no later stage is started, and the run
\* ends rolled back, with its session closed and exit status 1
C11_WorkerFailureAborts ==
    caller = "main" /\ WorkerRaised =>
        /\ phase # "load"
        /\ Store[StageTable[LastStage]] = SelectSeq(Store[StageTable[LastStage]], LAMBDA r : r.id < seq_before[StageTable[LastStage]])
        /\ nextid[StageTable[LastStage]] = seq_before[StageTable[LastStage]]
        /\ pc \in {LastStage, "except", "finally", "return", "exit"}
        /\ StageAfter(script, LastStage) \notin Range(log)
        /\ pc \in {"finally", "return", "exit"} => session.rollbacks = 1 /\ exitcode = 1
        /\ pc \in {"return", "exit"} => session.state = "closed"

\* C11 witness: a run whose second payment worker raised after the first
\* batch was collected is over
C11_Witness ==
    /\ caller = "main" /\ pc = "exit"
    /\ results # <<>> /\ results[Len(results)] = Raised
    /\ data # <<>>
    /\ err.type = "WorkerException"
    /\ exitcode = 1

---------------------------------------------------------------------------
(* Failure of a chunk load.                                                *)

\* loading a chunk of the stage main() called last failed in this run
LoadFailed == caller = "main" /\ err.type = "DatabaseError"

\* stored row r holds the values of generated row g
HoldsRow(r, g) == [f \in DOMAIN g |-> r[f]] = g

\* C12: when the load of the chunk at offset load_i fails in a run of main(),
\* the stage's table holds, from then on and through main's rollback and
\* exit, exactly the rows of the chunks before it, data[0 : load_i], in
\* order: the earlier chunks stay, no row of the failed chunk or of a later
\* one is there, and the load index never moves on
C12_ChunkCommits ==
    LoadFailed =>
        /\ pc \in {"except", "finally", "return", "exit"}
        /\ load_i <= Len(data)
        /\ Len(InsertedRows(LastStage)) = load_i
        /\ \A i \in 1..load_i : HoldsRow(InsertedRows(LastStage)[i], data[i])
        /\ session.pending = 0

\* C12 witness: a run whose second payment chunk failed has rolled back and
\* exited with the first chunk's row in place
C12_Witness ==
    /\ LoadFailed /\ pc = "exit"
    /\ session.rollbacks = 1
    /\ load_i = BATCH_SIZE /\ Len(data) > load_i
    /\ Len(InsertedRows("payments")) = BATCH_SIZE

---------------------------------------------------------------------------
(* The load loop.                                                          *)

\* the offsets range(0, len(data), batch_size) of the load loop
ChunkOffsets == PyRange(Len(data), batch_size)

\* C13: the chunk slices data[i : i + batch_size] of the load loop are
\* pairwise disjoint and cover the generated list in order; while the loop
\* runs the table holds exactly the rows of the chunks loaded so far, and
\* when the stage has returned without error the table has gained exactly
\* len(data) rows, row i holding the values of data[i], each under its own id
C13_LoadedExactlyOnce ==
    script = "copy" /\ pc = "customers" /\ caller = "call" /\ phase \in {"load", "returned"} /\ err = NoError =>
        /\ Flatten([k \in DOMAIN ChunkOffsets |-> PySlice(data, ChunkOffsets[k], batch_size)]) = data
        /\ \A k \in DOMAIN ChunkOffsets : PySlice(data, ChunkOffsets[k], batch_size) # <<>>
        /\ \A j, k \in DOMAIN ChunkOffsets : j < k => ChunkOffsets[j] + Len(PySlice(data, ChunkOffsets[j], batch_size)) <= ChunkOffsets[k]
        /\ Len(customers) = Min(load_i, Len(data))
        /\ \A i \in DOMAIN customers : HoldsRow(customers[i], data[i])
        /\ \A i, j \in DOMAIN customers : i # j => customers[i].id # customers[j].id
        /\ phase = "returned" => Len(customers) = Len(data) /\ Len(data) = n_rows

\* C13 witness: a stage of four rows has loaded a chunk of three and a chunk
\* of one and returned
C13_Witness ==
    /\ script = "copy" /\ pc = "customers" /\ caller = "call" /\ phase = "returned" /\ err = NoError
    /\ Len(data) = 4 /\ batch_size = 3
    /\ Len(customers) = 4

\* the offsets [start, end) within the stage's data of the chunk whose load
\* is at offset load_i
ChunkRange == <<load_i, Min(load_i + batch_size, Len(data))>>

\* C14 as stated: when the load of a chunk fails, the exception that reaches
\* main() and is printed for the operator carries the start and end offsets
\* of the failed chunk
C14_Original ==
    LoadFailed /\ LastStage = "payments" => err.args = ChunkRange

\* C15 as stated: no raw connection taken for a chunk load is left open
\* between chunks or after a chunk whose load raised
C15_Original ==
    script = "copy" /\ phase \in {"load", "raised", "returned"} => session.raw = 0

---------------------------------------------------------------------------
(* The COPY loader.                                                        *)

\* the chunk the load loop submits next
NextChunk == PySlice(data, load_i, batch_size)

\* C16: in a stage of the COPY script the buffer of a chunk has one line per
\* row and one tab-separated field per value, the field being \N exactly when
\* the value is None; and of the rows loaded so far each column is NULL
\* exactly when the generated value was None, one stored row per generated row
C16_NullSentinel ==
    script = "copy" /\ caller = "call" /\ phase \in {"load", "returned"} =>
        LET t == StageTable[pc]
            rows == InsertedRows(t)
            lines == Split(CopyBuffer(NextChunk, t), "\n")
        IN /\ Len(rows) = Min(load_i, Len(data))
           /\ \A i \in DOMAIN rows : \A f \in DOMAIN data[i] :
                IF f \in NumberColumns THEN (rows[i][f] = None <=> data[i][f] = None) ELSE rows[i][f] = data[i][f]
           /\ Len(lines) = Len(NextChunk) + 1 /\ lines[Len(lines)] = <<>>
           /\ \A i \in DOMAIN NextChunk :
                /\ Len(Split(lines[i], "\t")) = Len(KeyOrder[t])
                /\ \A k \in DOMAIN KeyOrder[t] : KeyOrder[t][k] \in NumberColumns =>
                     (Split(lines[i], "\t")[k] = NULL_TEXT <=> NextChunk[i][KeyOrder[t][k]] = None)

\* C16 witness: a purchase stage of the COPY script has loaded a row without
\* an end date and a row with one
C16_Witness ==
    /\ script = "copy" /\ caller = "call" /\ pc = "purchases" /\ phase = "returned"
    /\ \E i \in DOMAIN data : data[i].end_date = None /\ InsertedRows("purchases")[i].end_date = None
    /\ \E i \in DOMAIN data : data[i].end_date # None /\ InsertedRows("purchases")[i].end_date = data[i].end_date

\* C17: in a stage of the COPY script every row of a chunk has the key order
\* of the chunk's first row, whose keys are the columns given to the copy
\* call; the k-th field of each line is the text of the row's value for the
\* k-th column, and every column of a loaded row holds the value generated
\* under that column's name
C17_ColumnAlignment ==
    script = "copy" /\ caller = "call" /\ phase \in {"load", "returned"} =>
        LET t == StageTable[pc]
            columns == RowKeys(t, 1)
            lines == Split(CopyBuffer(NextChunk, t), "\n")
        IN /\ \A i \in DOMAIN NextChunk :
                /\ RowKeys(t, i) = columns
                /\ \A k \in DOMAIN columns : Split(lines[i], "\t")[k] = CopyText(columns[k], NextChunk[i][columns[k]])
           /\ \A i \in DOMAIN NextChunk : DOMAIN NextChunk[i] = Range(columns)
           /\ \A i \in DOMAIN InsertedRows(t) : i <= Len(data) /\ HoldsRow(InsertedRows(t)[i], data[i])

\* C17 witness: a payment stage of the COPY script has loaded a chunk of two
\* rows, the second with a customer id that differs from its purchase id
C17_Witness ==
    /\ script = "copy" /\ caller = "call" /\ pc = "payments" /\ phase = "returned"
    /\ batch_size = 2 /\ Len(data) = 2 /\ Len(InsertedRows("payments")) = 2
    /\ data[2].customer_id # data[2].purchase_id
    /\ InsertedRows("payments")[2].customer_id = data[2].customer_id

---------------------------------------------------------------------------
(* Enum-valued columns.                                                    *)

\* the enum behind each enum-valued column
EnumFields ==
    [customers |-> [account_status |-> "AccountStatus"],
     services |-> [type |-> "ServiceType", billing_cycle |-> "BillingCycle"],
     purchases |-> [status |-> "PurchaseStatus"],
     payments |-> [currency |-> "Currency", payment_method |-> "PaymentMethod", status |-> "PaymentStatus"]]

\* [e.value for e in Enum]
EnumValues(e) == {SqlaEnums[e][n] : n \in DOMAIN SqlaEnums[e]}

\* every enum-valued field of row r of table t is a value of its enum
EnumFieldsOk(t, r) == \A f \in DOMAIN EnumFields[t] : r[f] \in Int /\ r[f] \in EnumValues(EnumFields[t][f])

\* C19: every enum-valued field of every row in the store, of every row a
\* stage has generated, and of every row the catalog, customer and factory
\* generators can build is an integer of its enum's value set (1..3 for
\* account_status, 1..2 for billing_cycle, 1..4 for the others), and models.py
\* and sqlalchemy_models.py give every member the same integer
C19_EnumIntegers ==
    /\ SqlaEnums = DjangoEnums
    /\ SqlaEnums.ServiceType.INTERNET = 1 /\ SqlaEnums.PurchaseStatus.ACTIVE = 1
    /\ EnumValues("AccountStatus") = 1..3 /\ AccountStatusValues = 1..3
    /\ EnumValues("BillingCycle") = 1..2 /\ BillingCycleValues = 1..2
    /\ \A e \in {"ServiceType", "PurchaseStatus", "PaymentMethod", "PaymentStatus", "Currency"} : EnumValues(e) = 1..4
    /\ ServiceTypeValues = 1..4 /\ PurchaseStatusValues = 1..4 /\ PaymentMethodValues = 1..4 /\ PaymentStatusValues = 1..4 /\ CurrencyValues = 1..4
    /\ \A t \in Tables : \A i \in DOMAIN Store[t] : EnumFieldsOk(t, Store[t][i])
    /\ pc \in {"purchases", "payments"} => \A i \in DOMAIN GeneratedRows : EnumFieldsOk(StageTable[pc], GeneratedRows[i])
    /\ wide /\ phase = "call" =>
         /\ \A i \in DOMAIN TELECOM_SERVICES : EnumFieldsOk("services", ServiceRow(TELECOM_SERVICES[i], 0))
         /\ \A k \in 0..7 : EnumFieldsOk("services", ServiceFactoryRow(k, 0, TRUE)) /\ EnumFieldsOk("customers", CustomerFactoryRow(k, 0))
         /\ \A st \in AccountStatusValues : EnumFieldsOk("customers", CustomerRow(0, st))

\* C19 witness: a payment stage has loaded a row whose currency, payment
\* method and status are the last members of their enums
C19_Witness ==
    /\ pc = "payments" /\ phase = "returned"
    /\ \E i \in DOMAIN InsertedRows("payments") :
         /\ InsertedRows("payments")[i].currency = SqlaEnums.Currency.GBP
         /\ InsertedRows("payments")[i].payment_method = SqlaEnums.PaymentMethod.CASH_PAYMENT
         /\ InsertedRows("payments")[i].status = SqlaEnums.PaymentStatus.REFUNDED

---------------------------------------------------------------------------
(* Recurrence and billing cycle of a service.                              *)

\* C20 as stated: every service row a creation path has added has a null
\* billing_cycle exactly when it is not recurring
C20_Original ==
    \A i \in DOMAIN InsertedRows("services") :
        InsertedRows("services")[i].billing_cycle = None <=> ~InsertedRows("services")[i].is_recurring

---------------------------------------------------------------------------
(* A row target of zero.                                                   *)

\* C21: a customer stage called with n_customers = 0 builds no batch
\* descriptor, starts no worker, generates no row, loads no chunk (no raw
\* connection taken, nothing written to or numbered in the customers table,
\* nothing left uncommitted) and raises nothing: it goes from its call to
\* its return
C21_ZeroCustomers ==
    caller = "call" /\ pc = "customers" /\ n_rows = 0 =>
        /\ batch_starts = <<>> /\ results = <<>>
        /\ data = <<>> /\ load_i = 0
        /\ customers = <<>> /\ nextid = EmptyStore.nextid
        /\ session = OpenSession
        /\ err = NoError
        /\ phase \in {"call", "load", "returned"}

\* C21 witness: a customer stage of the COPY script called with
\* n_customers = 0 has returned
C21_Witness ==
    /\ script = "copy" /\ caller = "call" /\ pc = "customers"
    /\ n_rows = 0 /\ phase = "returned"
    /\ customers = <<>> /\ err = NoError

---------------------------------------------------------------------------
(* SpecCascade: objects created through the factories and deleted through  *)
(* the Django ORM, in any order, on a store.                               *)

\* the creations and deletions one behaviour follows
MaxOps == 3

InitCascade ==
    /\ script = "factory"
    /\ pc = "orm"
    /\ caller = "call"
    /\ runs = 0
    /\ session = NoSession
    /\ exitcode = -1
    /\ err = NoError
    /\ log = <<>>
    /\ wide = FALSE
    /\ StoreIn(SeedStores)
    /\ StageIdle
    /\ HistIdle

\* CustomerFactory() / ServiceFactory() / PurchaseFactory(customer=c,
\* service=s) / PaymentFactory(customer=c, purchase=p): one row saved, its
\* foreign keys the ids of the objects passed in
FactoryCreate(t) ==
    /\ pc = "orm" /\ Len(log) < MaxOps
    /\ LET k == nextid[t]
           rows == CASE t = "customers" -> {CustomerFactoryRow(k, k)}
                     [] t = "services" -> {ServiceFactoryRow(k, 1000 + k, k % 2 = 0)}
                     [] t = "purchases" -> {PurchaseWithExistingFactory(c, s, 1, k) : c \in Range(customers), s \in Range(services)}
                     [] OTHER -> {PaymentRow(c.id, p.id, 700 + k, (k % 4) + 1, (k % 4) + 1, (k % 4) + 1, 1) : c \in Range(customers), p \in Range(purchases)}
       IN \E row \in rows : SetStore(Insert(Store, t, <<row>>))
    /\ log' = Append(log, "create")
    /\ UNCHANGED <<script, pc, runs, session, exitcode, err, wide, caller, stageVars, histVars>>

\* obj.delete() of the object with this id in table t
DeleteObject(t, id) ==
    /\ pc = "orm" /\ Len(log) < MaxOps
    /\ id \in SeqIds(Store[t])
    /\ SetStore(CascadeDelete(Store, t, {id}))
    /\ log' = Append(log, t)
    /\ UNCHANGED <<script, pc, runs, session, exitcode, err, wide, caller, stageVars, histVars>>

NextCascade ==
    \/ \E t \in Tables : FactoryCreate(t)
    \/ \E t \in Tables : \E id \in SeqIds(Store[t]) : DeleteObject(t, id)

SpecCascade == InitCascade /\ [][NextCascade]_vars

\* C22: every foreign key of the store resolves in every state, whatever
\* was created and deleted; and a deletion removes the object itself, the
\* purchases of a removed customer or service and the payments of a removed
\* customer or purchase, and nothing else -- deleting a purchase leaves
\* every customer and service in place
C22_CascadeNoOrphans ==
    /\ [](pc = "orm" => ForeignKeysHold(Store))
    /\ [][\A t \in Tables : \A id \in SeqIds(Store[t]) : DeleteObject(t, id) =>
            LET gone(u) == {r \in Range(Store[u]) : r \notin Range(Store'[u])}
                ids(u) == {r.id : r \in gone(u)}
            IN /\ ForeignKeysHold(Store')
               /\ id \in ids(t) /\ id \notin SeqIds(Store'[t])
               /\ \A u \in Tables : Range(Store'[u]) \subseteq Range(Store[u])
               /\ \A r \in gone("customers") : t = "customers" /\ r.id = id
               /\ \A r \in gone("services") : t = "services" /\ r.id = id
               /\ \A r \in gone("purchases") : (t = "purchases" /\ r.id = id) \/ r.customer_id \in ids("customers") \/ r.service_id \in ids("services")
               /\ \A r \in gone("payments") : (t = "payments" /\ r.id = id) \/ r.customer_id \in ids("customers") \/ r.purchase_id \in ids("purchases")
               /\ \A r \in Range(purchases) : r.customer_id \in ids("customers") \/ r.service_id \in ids("services") => r \in gone("purchases")
               /\ \A r \in Range(payments) : r.customer_id \in ids("customers") \/ r.purchase_id \in ids("purchases") => r \in gone("payments")
       ]_vars

\* C22 witness: a customer that had a purchase and a payment was deleted, and
\* the purchases and payments that referenced it went with it while another
\* customer stays
C22_Witness ==
    /\ pc = "orm" /\ log = <<"customers">>
    /\ customers # <<>>
    /\ nextid["purchases"] > Len(purchases) + MaxBurn + 1
    /\ nextid["payments"] > Len(payments) + MaxBurn + 1
    /\ ForeignKeysHold(Store)

---------------------------------------------------------------------------
(* SpecChoice: process_purchase_batch(args) called for one batch of one    *)
(* row, with the service list and the weight vector of its arguments drawn *)
(* from bounded sets, and the rest of create_purchases_bulk after it.      *)

\* the longest service list and weight vector of SpecChoice
MaxChoice == 3
\* the largest weight of SpecChoice before normalisation
MaxWeight == 2

\* the weight lists a module could be written with
WeightVectors == UNION {[1..l -> 0..MaxWeight] : l \in 0..MaxChoice}

InitChoice ==
    /\ script = "copy"
    /\ pc = "purchases"
    /\ caller = "call"
    /\ runs = 0
    /\ session = OpenSession
    /\ exitcode = -1
    /\ err = NoError
    /\ log = <<>>
    /\ wide = FALSE
    /\ StoreIn({SeedStore(1, ns, 0, 0, 0) : ns \in 0..MaxChoice})
    /\ phase = "gen"
    /\ n_rows = 1
    /\ batch_size = 1
    /\ \E w \in WeightVectors : refs = [PurchaseRefs(Store) EXCEPT !.service_popularity_weights = Normalize(w)]
    /\ batch_starts = BatchStarts(1, 1)
    /\ results = <<NotDone>>
    /\ collected = 0
    /\ data = <<>>
    /\ load_i = 0
    /\ branch = <<>>
    /\ firstid = [t \in Tables |-> 0]
    /\ seq_before = nextid

NextChoice ==
    \/ ProcessPurchaseBatch(1)
    \/ CollectBatch
    \/ LoadChunk
    \/ BulkStageReturn

SpecChoice == InitChoice /\ [][NextChoice]_vars

\* C23: np.random.choice over the services with the weights p raises, and
\* the stage loads no purchase, when p and the service list differ in length
\* or every weight is zero; otherwise it raises nothing and every generated
\* and loaded purchase is of a service whose weight is positive.
C23_WeightedSampling ==
    LET p == refs.service_popularity_weights
        ids == refs.service_ids
        bad == Len(p) # Len(ids) \/ \A i \in DOMAIN p : p[i][1] = 0
        positive == {ids[i] : i \in {j \in DOMAIN ids \cap DOMAIN p : p[j][1] > 0}}
        drawn == {r.service_id : r \in Range(data) \cup Range(purchases) \cup UNION {Range(results[k].rows) : k \in DOMAIN results}}
    IN script = "copy" /\ pc = "purchases" /\ phase # "call" =>
         /\ bad =>
              /\ purchases = <<>> /\ data = <<>>
              /\ \A k \in DOMAIN results : results[k] \in {NotDone, Raised}
              /\ phase \in {"gen", "raised"}
              /\ phase = "raised" => err = Exception("WorkerException", <<>>)
         /\ ~bad =>
              /\ err = NoError /\ phase # "raised"
              /\ \A k \in DOMAIN results : results[k] # Raised
              /\ drawn \subseteq positive
              /\ phase = "returned" => Len(purchases) = n_rows

C23_Witness ==
    /\ script = "copy" /\ pc = "purchases" /\ phase = "raised"
    /\ Len(refs.service_ids) = 2
    /\ refs.service_popularity_weights = Normalize(<<0, 0>>)
    /\ results = <<Raised>>
    /\ purchases = <<>>

---------------------------------------------------------------------------
(* The share of payments made by the purchase's own customer.              *)

\* the generated payments whose customer is the customer of their purchase
SameCustomerRows == {j \in DOMAIN GeneratedRows : GeneratedRows[j].customer_id = ById(purchases, GeneratedRows[j].purchase_id).customer_id}

\* the generated payments whose draw np.random.random() < 0.95 came out true
MaskedRows == {j \in DOMAIN GeneratedSame : GeneratedSame[j]}

\* C24 as stated: the share of generated payments whose customer_id is the
\* customer_id of their purchase is the share of the draws that fall below
\* 0.95 (which over 10,000 draws is 0.95 within 0.02): as many payments have
\* the purchase's customer as there are such draws.
C24_Original ==
    caller = "call" /\ pc = "payments" /\ phase = "returned" =>
        Cardinality(SameCustomerRows) = Cardinality(MaskedRows)

---------------------------------------------------------------------------
(* SpecCatalog: create_custom_services_bulk / create_custom_services of    *)
(* each population script called once, over the whole of TELECOM_SERVICES. *)

InitCatalog ==
    /\ script \in PopulationScripts
    /\ pc = "services"
    /\ caller = "call"
    /\ runs = 0
    /\ session = IF script = "django" THEN NoSession ELSE OpenSession
    /\ exitcode = -1
    /\ err = NoError
    /\ log = <<>>
    /\ wide = TRUE
    /\ StoreIn({EmptyStore, SeedStore(1, 1, 1, 0, 1)})
    /\ phase = "call"
    /\ n_rows = 0
    /\ batch_size = 0
    /\ refs = NoRefs
    /\ batch_starts = <<>>
    /\ results = <<>>
    /\ collected = 0
    /\ data = <<>>
    /\ load_i = 0
    /\ branch = <<>>
    /\ firstid = [t \in Tables |-> 0]
    /\ seq_before = nextid

NextCatalog == CreateCustomServices

SpecCatalog == InitCatalog /\ [][NextCatalog]_vars

\* the services the call has created: the rows with the ids handed out
\* since it began
CreatedServices == SelectSeq(services, LAMBDA r : r.id >= seq_before["services"])

\* C25: a call of the service stage creates exactly 20 services, the i-th
\* with the i-th catalog name; the first 8 are INTERNET, the next 7 MOBILE,
\* the last 5 TV and none ONE_OFF; each price lies in the range of the first
\* price keyword the chain matches for its name ('Mobile Plan Family 10GB',
\* the 14th, in 20..30), all within 15..120; each is recurring and MONTHLY.
C25_CatalogGeneration ==
    caller = "call" /\ pc = "services" /\ phase = "returned" /\ wide =>
        LET new == CreatedServices
            expected == << <<25, 45>>, <<50, 80>>, <<80, 120>>, <<20, 35>>, <<40, 60>>,
                           <<15, 25>>, <<20, 35>>, <<25, 45>>,
                           <<15, 25>>, <<20, 30>>, <<25, 35>>, <<40, 60>>, <<30, 45>>,
                           <<20, 30>>, <<35, 50>>,
                           <<15, 25>>, <<30, 50>>, <<20, 35>>, <<20, 35>>, <<15, 25>> >>
        IN /\ Len(TELECOM_SERVICES) = 20
           /\ Len(new) = 20
           /\ nextid["services"] = seq_before["services"] + 20
           /\ \A i \in 1..20 :
                /\ new[i].name = TELECOM_SERVICES[i]
                /\ new[i].type = (IF i <= 8 THEN ServiceType_INTERNET ELSE IF i <= 15 THEN ServiceType_MOBILE ELSE ServiceType_TV)
                /\ new[i].type # ServiceType_ONE_OFF
                /\ new[i].base_price >= expected[i][1] * 100
                /\ new[i].base_price <= expected[i][2] * 100
                /\ new[i].base_price > 0
                /\ new[i].base_price \in 1500..12000
                /\ new[i].is_recurring = TRUE
                /\ new[i].billing_cycle = BillingCycle_MONTHLY

C25_Witness ==
    /\ caller = "call" /\ pc = "services" /\ phase = "returned" /\ wide
    /\ Len(CreatedServices) = 20
    /\ CreatedServices[14].name = TELECOM_SERVICES[14]
    /\ CreatedServices[14].base_price = 3000
    /\ CreatedServices[3].base_price = 12000

---------------------------------------------------------------------------
(* The order of the collected batches.                                     *)

\* C26: in whatever order the workers of create_customers_bulk finish, the
\* list the batches are concatenated into holds the rows in partition order:
\* its k-th row (from 0) is customer_k with email customer_k@example.com, it
\* grows by whole batches, holds N rows once every batch is collected, and no
\* two of its rows share a name or an email.
C26_FanOutOrder ==
    script = "copy" /\ pc = "customers" /\ caller = "call" /\ phase # "call" =>
        /\ \A i \in DOMAIN data :
             /\ data[i].name = CUSTOMER_PREFIX \o Str(i - 1)
             /\ data[i].email = CUSTOMER_PREFIX \o Str(i - 1) \o EMAIL_SUFFIX
        /\ Len(data) = Min(collected * batch_size, n_rows)
        /\ phase \in {"load", "returned"} => Len(data) = n_rows
        /\ \A i, j \in DOMAIN data : i # j => data[i].name # data[j].name /\ data[i].email # data[j].email

C26_Witness ==
    /\ script = "copy" /\ pc = "customers" /\ caller = "call" /\ phase = "gen"
    /\ n_rows = 3 /\ batch_size = 1
    /\ results[3].state = "Done" /\ results[2] = NotDone
    /\ collected = 1
    /\ Len(data) = 1 /\ data[1].name = CUSTOMER_PREFIX \o Str(0)

---------------------------------------------------------------------------
(* Day offsets of the generated dates.                                     *)

\* the offsets d = clock - date, in days, of the start_date / timestamp of
\* the rows the running call has generated or inserted
DayOffsets ==
    LET date(r) == IF pc = "purchases" THEN r.start_date ELSE r.timestamp
    IN {Today - date(GeneratedRows[i]) : i \in DOMAIN GeneratedRows}
       \cup {Today - date(InsertedRows(StageTable[pc])[i]) : i \in DOMAIN InsertedRows(StageTable[pc])}

\* C27 as stated: in every generator (bulk, Django, factory) each generated
\* start_date / timestamp lies 1..365 whole days before the clock, and both
\* ends of that range can occur: wherever a call can generate its first rows,
\* it can generate one dated 1 day back and one dated 365 days back.
C27_Original ==
    caller = "call" /\ pc \in {"purchases", "payments"} =>
        /\ DayOffsets \subseteq 1..365
        /\ ENABLED (NextStage /\ DayOffsets = {} /\ DayOffsets' # {}) =>
             /\ ENABLED (NextStage /\ 1 \in DayOffsets')
             /\ ENABLED (NextStage /\ 365 \in DayOffsets')

---------------------------------------------------------------------------
(* Generation and load phases of a bulk stage.                             *)

\* the stage functions that generate in a process pool and load in chunks
BulkStage ==
    /\ caller = "call"
    /\ \/ script = "copy" /\ pc \in {"purchases", "payments"}
       \/ script = "sqla" /\ pc = "payments"

\* C28: in a bulk stage a chunk is loaded only in the load loop, which is
\* entered only when every batch has been generated and collected (no worker
\* is running); each step of the loop loads exactly one chunk, the next one,
\* and leaves nothing uncommitted, so between two loads the table holds
\* exactly the chunks before the loop's offset.
C28_PhaseSeparation ==
    /\ [](BulkStage /\ phase \in {"load", "returned"} =>
            /\ collected = Len(batch_starts)
            /\ \A k \in DOMAIN results : results[k].state = "Done"
            /\ Len(InsertedRows(StageTable[pc])) = Min(load_i, Len(data))
            /\ session.pending = 0)
    /\ [][BulkStage /\ Store[StageTable[pc]]' # Store[StageTable[pc]] =>
            /\ phase = "load" /\ phase' = "load"
            /\ \A k \in DOMAIN results : results[k].state = "Done"
            /\ Len(Store[StageTable[pc]]') = Len(Store[StageTable[pc]]) + Len(PySlice(data, load_i, batch_size))
            /\ load_i' = load_i + batch_size
            /\ session'.pending = 0]_vars

C28_Witness ==
    /\ BulkStage /\ script = "copy" /\ pc = "purchases" /\ phase = "load"
    /\ n_rows = 2 /\ batch_size = 1
    /\ Len(data) = 2 /\ load_i = 1
    /\ \A k \in DOMAIN results : results[k].state = "Done"
    /\ Len(InsertedRows("purchases")) = 1

---------------------------------------------------------------------------
(* The purchase stage on a store whose services do not match the weights.  *)

\* a direct call of a script's purchase stage, for at least one purchase, on
\* a store with customers and with a number of services that is neither 0
\* nor the number of popularity weights
ServiceCountMismatch ==
    /\ caller = "call" /\ script \in PopulationScripts /\ pc = "purchases"
    /\ n_rows > 0
    /\ customers # <<>>
    /\ Len(services) \notin {0, Len(SERVICE_POPULARITY_WEIGHTS)}

\* C29: with a non-zero number of services other than the number of weights
\* the purchase stage passes its empty-reference check, fails in the weighted
\* choice and raises: it never reaches its load or its return, the error is
\* not the empty-reference error, and no purchase is inserted.
C29_ServiceCountMismatch ==
    ServiceCountMismatch =>
        /\ phase \in {"call", "gen", "loop", "raised"}
        /\ phase = "raised" => err.type \in {"ValueError", "WorkerException"}
        /\ \A k \in DOMAIN results : results[k].state # "Done"
        /\ data = <<>>
        /\ InsertedRows("purchases") = <<>>
        /\ nextid["purchases"] = seq_before["purchases"]

C29_Witness ==
    /\ ServiceCountMismatch /\ script = "sqla"
    /\ Len(services) = 1
    /\ phase = "raised" /\ err = Exception("ValueError", <<>>)
    /\ InsertedRows("purchases") = <<>>

---------------------------------------------------------------------------
(* SpecSmall: main() of populate_database.py with N_CUSTOMERS set to 1 or   *)
(* 2, from its call of create_customers on the store it has just cleared.  *)

\* the largest N_CUSTOMERS of SpecSmall
MaxSmall == 2

NO_OTHER_CUSTOMER == Exception("ValueError: a must be non-empty", <<>>)

InitSmall ==
    /\ script = "django"
    /\ pc = "customers"
    /\ caller = "main"
    /\ runs = 0
    /\ session = NoSession
    /\ exitcode = -1
    /\ err = NoError
    /\ log = <<"clear", "customers">>
    /\ wide = FALSE
    /\ StoreIn({[EmptyStore EXCEPT !.nextid = st.nextid] : st \in SeedStores})
    /\ phase = "call"
    /\ n_rows \in 1..MaxSmall
    /\ batch_size = BATCH_SIZE
    /\ refs = NoRefs
    /\ batch_starts = <<>>
    /\ results = <<>>
    /\ collected = 0
    /\ data = <<>>
    /\ load_i = 0
    /\ branch = <<>>
    /\ firstid = [t \in Tables |-> 0]
    /\ seq_before = nextid

NextSmall ==
    \/ DjangoCreateCustomer
    \/ CreateCustomServices
    \/ DjangoCreatePurchasesBegin
    \/ DjangoCreatePurchase
    \/ DjangoCreatePaymentsBegin
    \/ DjangoCreatePayment
    \/ DjangoStageReturn
    \/ Verify
    \/ HandleException
    \/ ProcessExit

SpecSmall == InitSmall /\ [][NextSmall]_vars

\* C30: in a run of the Django script with a single customer the first
\* payment of create_payments that takes the different-customer branch
\* raises (other_customers is empty): every payment created before it took
\* the same-customer branch and stays in the table through the handler and
\* the exit, and main exits with status 1; such a run exits with 0 only if
\* no payment took that branch.  With two customers the branch never raises.
C30_SingleCustomer ==
    /\ [](script = "django" /\ caller = "main" =>
            /\ err = NO_OTHER_CUSTOMER =>
                 /\ Len(customers) = 1
                 /\ LastStage = "payments"
                 /\ pc \in {"except", "return", "exit"}
                 /\ Len(data) < N_PAYMENTS
                 /\ Len(payments) = Len(data) /\ Len(branch) = Len(data)
                 /\ \A i \in DOMAIN branch : branch[i]
                 /\ \A i \in DOMAIN payments : payments[i].customer_id = customers[1].id
                 /\ pc = "exit" => exitcode = 1
            /\ Len(customers) = 1 /\ pc = "exit" /\ exitcode = 0 =>
                 /\ Len(payments) = N_PAYMENTS
                 /\ branch = [i \in 1..N_PAYMENTS |-> TRUE]
            /\ Len(customers) >= 2 => err # NO_OTHER_CUSTOMER)
    /\ [][script = "django" /\ caller = "main" /\ (err = NO_OTHER_CUSTOMER \/ err' = NO_OTHER_CUSTOMER) =>
            payments' = payments]_vars

C30_Witness ==
    /\ script = "django" /\ caller = "main" /\ pc = "exit"
    /\ exitcode = 1 /\ err = NO_OTHER_CUSTOMER
    /\ Len(customers) = 1
    /\ Len(payments) = 1 /\ branch = <<TRUE>>

====
